---- MODULE Spec2Model ----
(***************************************************************************)
(* Model of generate-gallery.js: the path fingerprint, the cache locator   *)
(* and the thumbnail worker pool (generateThumbnails / processOne /        *)
(* generateVideoThumbnail), run on a single JavaScript thread.             *)
(*                                                                         *)
(* Strings are sequences of UTF-16 code units.  The JavaScript thread is   *)
(* held by at most one worker at a time (variable running): a worker keeps *)
(* it from the moment it is started or resumed until it reaches an await   *)
(* or returns.  The still-image codec works on its own threads, so its     *)
(* completion is a separate step that needs no JavaScript thread.          *)
(***************************************************************************)
EXTENDS Integers, Sequences, FiniteSets, TLC

\* ------------------------------------------------------------------ bounds
MaxItems == 2       \* largest inventory handed to the pool
MaxWorkers == 2     \* largest number of concurrent workers
MaxRuns == 2        \* program runs over the same root
MaxDuration == 1    \* largest probed video duration, in whole seconds
MaxLeaked == 1      \* scratch directories a failing cleanup may leave behind
MaxUnlinked == 0    \* frames unlinked before an unlinkSync throws
MaxTicks == 12      \* durations given to the sampler alone: 1..MaxTicks ticks
TickMs == 900       \* length of one such tick, in milliseconds
MaxByte == 255      \* largest value of a fingerprint byte given to the sampler
MaxLen == 4         \* longest string given to hashPath
MaxStem == 2        \* longest file name stem given to getThumbnailPath
MaxDenied == 1      \* paths of the scanned tree that cannot be read
MaxScans == 2       \* program runs over the scanned tree
MaxImages == 31     \* largest inventory shown by the viewer
MaxCols == 3        \* most thumbnails the window fits in one row
MaxLoads == 3       \* loads of one img element that are followed

\* ------------------------------------------------------- program constants
IMAGES_PER_PAGE == 15
THUMBNAILS_DIR == <<116, 104, 117, 109, 98, 110, 97, 105, 108, 115>>
IMAGE_EXTENSIONS ==
  { <<46, 106, 112, 103>>, <<46, 106, 112, 101, 103>>, <<46, 112, 110, 103>>,
    <<46, 103, 105, 102>>, <<46, 119, 101, 98, 112>>, <<46, 98, 109, 112>> }
VIDEO_EXTENSIONS == {<<46, 109, 112, 52>>}
MEDIA_EXTENSIONS == IMAGE_EXTENSIONS \cup VIDEO_EXTENSIONS
OUTPUT_DATA_FILE ==
  <<105, 109, 97, 103, 101, 115, 45, 100, 97, 116, 97, 46, 106, 115>>
OUTPUT_HTML_FILE == <<103, 97, 108, 108, 101, 114, 121, 46, 104, 116, 109, 108>>
EXT_GIF == <<46, 103, 105, 102>>
EXT_PNG == <<46, 112, 110, 103>>
EXT_JPG == <<46, 106, 112, 103>>
EXT_WEBP == <<46, 119, 101, 98, 112>>
SEP == 47
DOT == 46
ROOT_DIR == <<47, 114>>

\* ------------------------------------------------------------ fingerprint
W16 == 65536

\* Bitwise exclusive or of the n low bits of a and b
RECURSIVE XorBits(_, _, _)
XorBits(a, b, n) ==
  IF n = 0 THEN 0
  ELSE (((a % 2) + (b % 2)) % 2) + 2 * XorBits(a \div 2, b \div 2, n - 1)

XorNibble == [x \in 0..15, y \in 0..15 |-> XorBits(x, y, 4)]

\* The same, four bits at a time
RECURSIVE Xor16(_, _, _)
Xor16(a, b, n) ==
  IF n = 0 THEN 0
  ELSE XorNibble[a % 16, b % 16] + 16 * Xor16(a \div 16, b \div 16, n - 4)

\* A 32-bit accumulator is kept as its two 16-bit halves (its bit pattern).
Word(n) == [hi |-> n \div W16, lo |-> n % W16]

Shl5(h) ==
  LET lo == h.lo * 32
  IN  [hi |-> (h.hi * 32 + lo \div W16) % W16, lo |-> lo % W16]

Add32(a, b) ==
  LET lo == a.lo + b.lo
  IN  [hi |-> (a.hi + b.hi + lo \div W16) % W16, lo |-> lo % W16]

XorChar(h, c) == [hi |-> h.hi, lo |-> Xor16(h.lo, c, 16)]

Djb2Step(h, c) == XorChar(Add32(Shl5(h), h), c)

RECURSIVE Djb2(_, _, _)
Djb2(h, str, i) ==
  IF i = 0 THEN h ELSE Djb2Step(Djb2(h, str, i - 1), str[i])

HexChar(d) == IF d < 10 THEN 48 + d ELSE 87 + d

Hex4(n) == <<HexChar(n \div 4096), HexChar((n \div 256) % 16),
             HexChar((n \div 16) % 16), HexChar(n % 16)>>

\* The digits of a number without its leading zeros ("0" for zero)
RECURSIVE StripZeros(_)
StripZeros(s) ==
  IF Len(s) > 1 /\ s[1] = 48 THEN StripZeros(Tail(s)) ELSE s

\* 2^32 minus the accumulator: the magnitude of a negative 32-bit integer
Negate(h) ==
  [hi |-> (W16 - h.hi - (IF h.lo = 0 THEN 0 ELSE 1)) % W16,
   lo |-> (W16 - h.lo) % W16]

\* (variant: >>> 0 is missing, the signed 32-bit value is rendered)
toString16_signed(h) ==
  IF h.hi >= W16 \div 2
  THEN <<45>> \o StripZeros(Hex4(Negate(h).hi) \o Hex4(Negate(h).lo))
  ELSE StripZeros(Hex4(h.hi) \o Hex4(h.lo))

\* (h >>> 0).toString(16)
toString16(h) == StripZeros(Hex4(h.hi) \o Hex4(h.lo))

\* .padStart(8, '0')
RECURSIVE padStart8(_)
padStart8(s) == IF Len(s) >= 8 THEN s ELSE padStart8(<<48>> \o s)

Hex8(h) == padStart8(toString16(h))

hashPath(str) ==
  Hex8(Djb2(Word(5381), str, Len(str))) \o Hex8(Djb2(Word(52711), str, Len(str)))

\* ------------------------------------------------------------ path helpers
RECURSIVE LastIndexOf(_, _, _)
LastIndexOf(s, c, i) ==
  IF i = 0 THEN 0 ELSE IF s[i] = c THEN i ELSE LastIndexOf(s, c, i - 1)

ToLower(s) ==
  [i \in 1..Len(s) |-> IF s[i] \in 65..90 THEN s[i] + 32 ELSE s[i]]

basename(p) == SubSeq(p, LastIndexOf(p, SEP, Len(p)) + 1, Len(p))

dirname(p) == SubSeq(p, 1, LastIndexOf(p, SEP, Len(p)) - 1)

extname(p) ==
  LET b == basename(p)
      d == LastIndexOf(b, DOT, Len(b))
  IN  IF d <= 1 THEN <<>> ELSE SubSeq(b, d, Len(b))

join2(a, b) == a \o <<SEP>> \o b

HexValue(c) == IF c >= 97 THEN c - 87 ELSE c - 48

parseHexPair(s) == 16 * HexValue(s[1]) + HexValue(s[2])

Min(a, b) == IF a < b THEN a ELSE b
Max(a, b) == IF a > b THEN a ELSE b

\* ---------------------------------------------------------- cache locator
\* (variant: the extension is compared without .toLowerCase())
thumbExtOf_caseSensitive(mediaPath, mediaType) ==
  IF mediaType = "video" \/ extname(mediaPath) = EXT_GIF THEN EXT_WEBP
  ELSE IF extname(mediaPath) = EXT_PNG THEN EXT_PNG ELSE EXT_JPG

thumbExtOf(mediaPath, mediaType) ==
  LET ext == ToLower(extname(mediaPath))
  IN  IF mediaType = "video" \/ ext = EXT_GIF THEN EXT_WEBP
      ELSE IF ext = EXT_PNG THEN EXT_PNG ELSE EXT_JPG

getThumbnailPath(mediaPath, mediaType) ==
  LET fp == hashPath(mediaPath)
  IN  join2(join2(join2(THUMBNAILS_DIR, <<fp[1]>>), <<fp[2]>>),
            fp \o thumbExtOf(mediaPath, mediaType))

\* (variant of the viewer's function: .toLowerCase() is missing)
viewerGetThumbnailPath_caseSensitive(mediaPath, mediaType) ==
  LET at == LastIndexOf(mediaPath, DOT, Len(mediaPath))
      ext == IF at = 0 THEN SubSeq(mediaPath, Len(mediaPath), Len(mediaPath))
             ELSE SubSeq(mediaPath, at, Len(mediaPath))
      thumbExt == IF mediaType = "video" \/ ext = EXT_GIF THEN EXT_WEBP
                  ELSE IF ext = EXT_PNG THEN EXT_PNG ELSE EXT_JPG
      fp == hashPath(mediaPath)
  IN  THUMBNAILS_DIR \o <<SEP, fp[1], SEP, fp[2], SEP>> \o fp \o thumbExt

\* getThumbnailPath of the viewer script (gallery.html), which has its own
\* copy of hashPath, the same text as the generator's:
\*   ext = mediaPath.slice(mediaPath.lastIndexOf('.')).toLowerCase()
\*   'thumbnails/' + hash[0] + '/' + hash[1] + '/' + hash + thumbExt
\* lastIndexOf gives -1 when there is no dot, and slice(-1) the last character.
viewerGetThumbnailPath(mediaPath, mediaType) ==
  LET at == LastIndexOf(mediaPath, DOT, Len(mediaPath))
      ext == ToLower(IF at = 0
                     THEN SubSeq(mediaPath, Len(mediaPath), Len(mediaPath))
                     ELSE SubSeq(mediaPath, at, Len(mediaPath)))
      thumbExt == IF mediaType = "video" \/ ext = EXT_GIF THEN EXT_WEBP
                  ELSE IF ext = EXT_PNG THEN EXT_PNG ELSE EXT_JPG
      fp == hashPath(mediaPath)
  IN  THUMBNAILS_DIR \o <<SEP, fp[1], SEP, fp[2], SEP>> \o fp \o thumbExt

\* ------------------------------------------------------------ the scan root
\* The media files below the scan root, with their byte sizes (all distinct,
\* as the size-based deduplication of findMedia leaves them).
\*   02.jpg  2p.jpg  a.png  b.gif  c.mp4  h.mp4
DiskFiles ==
  { [path |-> <<48, 50, 46, 106, 112, 103>>, size |-> 60],
    [path |-> <<50, 112, 46, 106, 112, 103>>, size |-> 50],
    [path |-> <<97, 46, 112, 110, 103>>, size |-> 90],
    [path |-> <<98, 46, 103, 105, 102>>, size |-> 40],
    [path |-> <<99, 46, 109, 112, 52>>, size |-> 100],
    [path |-> <<104, 46, 109, 112, 52>>, size |-> 80] }

\* The videos the sampler is followed on alone: those above and e.mp4, whose
\* fingerprint gives the most frames (10 segments of 20).
SamplerFiles ==
  { e \in DiskFiles : e.path \in {<<99, 46, 109, 112, 52>>,
                                   <<104, 46, 109, 112, 52>>} }
    \cup { [path |-> <<101, 46, 109, 112, 52>>, size |-> 70] }

MediaEntry(e) ==
  [path |-> e.path, size |-> e.size,
   type |-> IF ToLower(extname(e.path)) \in VIDEO_EXTENSIONS
            THEN "video" ELSE "image"]

\* (variant: the comparator is a.size - b.size)
RECURSIVE SortBySizeAsc(_)
SortBySizeAsc(S) ==
  IF S = {} THEN <<>>
  ELSE LET m == CHOOSE x \in S : \A y \in S : y.size >= x.size
       IN  <<m>> \o SortBySizeAsc(S \ {m})

\* media.sort((a, b) => b.size - a.size) over entries of distinct sizes
RECURSIVE SortBySizeDesc(_)
SortBySizeDesc(S) ==
  IF S = {} THEN <<>>
  ELSE LET m == CHOOSE x \in S : \A y \in S : y.size <= x.size
       IN  <<m>> \o SortBySizeDesc(S \ {m})

\* The artifact path of every entry, and the string generateVideoThumbnail
\* hashes for it, each computed once.
ThumbPathOf ==
  [e \in DiskFiles \cup SamplerFiles |->
     getThumbnailPath(e.path, MediaEntry(e).type)]

thumbPathFor(it) == ThumbPathOf[[path |-> it.path, size |-> it.size]]

VideoHashOf ==
  [e \in DiskFiles \cup SamplerFiles |-> hashPath(join2(ROOT_DIR, e.path))]

videoHashFor(it) == VideoHashOf[[path |-> it.path, size |-> it.size]]

Inventories ==
  { SortBySizeDesc({MediaEntry(e) : e \in F}) :
      F \in {G \in SUBSET DiskFiles : Cardinality(G) <= MaxItems} }

\* ------------------------------------------------------------------ state
VARIABLES
  run,          \* number of the current program run over the root
  media,        \* the inventory handed to generateThumbnails
  concurrency,  \* number of processOne workers started by the pool
  pcMain,       \* position of generateThumbnails
  hasFfmpeg,    \* result of checkFfmpegAvailable at pool start
  spawned,      \* workers started so far by the for loop
  queue,        \* the shared queue
  counters,     \* completed, skipped, failed
  running,      \* worker holding the JavaScript thread, 0 when none
  pc,           \* position of each worker
  item,         \* the entry each worker dequeued
  thumbPath,    \* its artifact path
  result,       \* settlement of the promise the worker awaits
  tempDir,      \* scratch directory of the worker's video invocation
  segmentCount,
  framesPerSegment,
  frameIndex,
  hash,         \* the fingerprint the sampler derived its shape from
  duration,     \* the probed duration, in milliseconds
  seg,          \* outer loop counter of the extraction loops
  f,            \* inner loop counter of the extraction loops
  ffmpegCalls,  \* the ffmpeg commands the invocation ran, in order (history)
  thrown,       \* an exception is propagating through the finally block
  cleanupThrew, \* the catch inside the finally block swallowed an error
  files,        \* artifact files present below the cache root
  dirs,         \* directories present below the cache root
  tempDirs,     \* scratch directories present, each with its frame files
  claimed,      \* per entry, the workers that dequeued it (history)
  outcome,      \* per entry, its state in the current run (history)
  prevOutcome,  \* per entry, its outcome in the previous run (history)
  prevFiles,    \* artifact files present when the previous run ended
  summary,      \* the counts printed by the final summary, if printed
  progress,     \* completed counts for which a progress line was written
  tree,         \* the directory entries below the scan root, in readdir order
  denied,       \* paths on which readdirSync or statSync throws
  seenSizes,    \* byte sizes seen so far by findMedia
  duplicatesSkipped,
  stack,        \* the active findMedia calls, innermost first
  visited,      \* media files whose statSync succeeded, in visit order (history)
  prevMedia,    \* the inventory found by the previous run (history)
  IMAGES,       \* the inventory the opened gallery page was generated with
  currentPage,
  currentLightboxIndex,
  lightboxActive,
  cursorIndex,  \* -1 when the cursor is hidden
  lastCursorPos,
  prevDisabled, \* the disabled attribute of the button prev-btn
  nextDisabled, \* the disabled attribute of the button next-btn
  img,          \* one img element of the grid, with the state of its loads
  unloadable,   \* the URLs the browser fails to load as an image
  call          \* the last call of a pure function, with its result

mainVars == <<run, media, concurrency, pcMain, hasFfmpeg, spawned>>
videoVars == <<tempDir, segmentCount, framesPerSegment, frameIndex, thrown,
              cleanupThrew, hash, duration, seg, f, ffmpegCalls>>
diskVars == <<files, dirs, tempDirs>>
histVars == <<claimed, outcome, prevOutcome, prevFiles, summary>>
scanVars == <<tree, denied, seenSizes, duplicatesSkipped, stack, visited,
             prevMedia>>
viewerVars == <<IMAGES, currentPage, currentLightboxIndex, lightboxActive,
               cursorIndex, lastCursorPos, prevDisabled, nextDisabled, img,
               unloadable>>
vars == <<run, media, concurrency, pcMain, hasFfmpeg, spawned, queue,
          counters, running, pc, item, thumbPath, result, tempDir,
          segmentCount, framesPerSegment, frameIndex, thrown, cleanupThrew,
          hash, duration, seg, f, ffmpegCalls,
          files, dirs, tempDirs, claimed, outcome, prevOutcome, prevFiles,
          summary, progress, tree, denied, seenSizes, duplicatesSkipped,
          stack, visited, prevMedia, IMAGES, currentPage,
          currentLightboxIndex, lightboxActive, cursorIndex, lastCursorPos,
          prevDisabled, nextDisabled, img, unloadable, call>>

Workers == 1..MaxWorkers
NoItem == [path |-> <<>>, size |-> 0, type |-> "none"]
NoSummary == [generated |-> -1, skipped |-> -1, failed |-> -1]
NoCall == [fn |-> "none"]
NoImg == [src |-> <<>>]

\* State of the viewer while no gallery page is open: the initial values of
\* the script's variables, both buttons as the markup has them.
ViewerIdle ==
  /\ IMAGES = <<>>
  /\ currentPage = 0
  /\ currentLightboxIndex = -1
  /\ lightboxActive = FALSE
  /\ cursorIndex = -1
  /\ lastCursorPos = 0
  /\ prevDisabled = FALSE
  /\ nextDisabled = FALSE
  /\ img = NoImg
  /\ unloadable = {}

\* State of the scanner in a program whose discovery phase is not followed.
ScanIdle ==
  /\ tree = <<>>
  /\ denied = {}
  /\ seenSizes = {}
  /\ duplicatesSkipped = 0
  /\ stack = <<>>
  /\ visited = <<>>
  /\ prevMedia = <<>>
Range(s) == {s[i] : i \in 1..Len(s)}
PathsOf(m) == {e.path : e \in Range(m)}
Terminal == {"Generated", "SkippedHit", "SkippedDep", "Failed"}

\* State of the pool's variables before generateThumbnails is entered.
PoolZero ==
  /\ hasFfmpeg = FALSE
  /\ spawned = 0
  /\ queue = <<>>
  /\ counters = [completed |-> 0, skipped |-> 0, failed |-> 0]
  /\ running = 0
  /\ pc = [w \in Workers |-> "unstarted"]
  /\ item = [w \in Workers |-> NoItem]
  /\ thumbPath = [w \in Workers |-> <<>>]
  /\ result = [w \in Workers |-> "none"]
  /\ tempDir = [w \in Workers |-> 0]
  /\ segmentCount = [w \in Workers |-> 0]
  /\ framesPerSegment = [w \in Workers |-> 0]
  /\ frameIndex = [w \in Workers |-> 0]
  /\ thrown = [w \in Workers |-> FALSE]
  /\ cleanupThrew = [w \in Workers |-> FALSE]
  /\ hash = [w \in Workers |-> <<>>]
  /\ duration = [w \in Workers |-> 0]
  /\ seg = [w \in Workers |-> 0]
  /\ f = [w \in Workers |-> 0]
  /\ ffmpegCalls = [w \in Workers |-> <<>>]
  /\ summary = NoSummary
  /\ progress = <<>>

PoolReset == pcMain = "start" /\ PoolZero

Init ==
  /\ run = 1
  /\ media \in Inventories
  /\ concurrency \in 1..MaxWorkers
  /\ PoolReset
  /\ files = {}
  /\ dirs = {}
  /\ tempDirs = <<>>
  /\ claimed = [p \in PathsOf(media) |-> <<>>]
  /\ outcome = [p \in PathsOf(media) |-> "Pending"]
  /\ prevOutcome = [p \in PathsOf(media) |-> "None"]
  /\ prevFiles = {}
  /\ ScanIdle
  /\ ViewerIdle
  /\ call = NoCall

\* ------------------------------------------------------- pool operations
\* (variant: the head is read but not removed)
Shift_peek(q) == q

\* queue.shift(): what is left of the queue once its head was taken
Shift(q) == Tail(q)

\* (variant: the cache is never consulted)
Decide_noCacheCheck(it, tp, present, ffmpeg) ==
  IF it.type = "video" /\ ~ffmpeg THEN "SkippedDep" ELSE "Dispatch"

\* (variant: the dependency check comes before the cache check)
Decide_depFirst(it, tp, present, ffmpeg) ==
  IF it.type = "video" /\ ~ffmpeg THEN "SkippedDep"
  ELSE IF tp \in present THEN "SkippedHit"
  ELSE "Dispatch"

\* The two skip checks of processOne, in the order of the code.
Decide(it, tp, present, ffmpeg) ==
  IF tp \in present THEN "SkippedHit"
  ELSE IF it.type = "video" /\ ~ffmpeg THEN "SkippedDep"
  ELSE "Dispatch"

\* The progress update at the end of the loop body: a line is written when
\* completed is a multiple of 10 or equals media.length.
Report(lines, c, total) ==
  IF c.completed % 10 = 0 \/ c.completed = total
  THEN Append(lines, c.completed) ELSE lines

CountSkipped(c) == [c EXCEPT !.skipped = @ + 1, !.completed = @ + 1]
CountGenerated(c) == [c EXCEPT !.completed = @ + 1]
\* (variant: the catch block forgets completed++)
CountFailed_forgetsCompleted(c) == [c EXCEPT !.failed = @ + 1]

CountFailed(c) == [c EXCEPT !.failed = @ + 1, !.completed = @ + 1]

\* fs.mkdirSync(thumbDir, { recursive: true }): the shard and its parents
MkdirP(d) == {d, dirname(d), dirname(dirname(d))}

\* The parents mkdirSync had created when it threw, outermost first.
MkdirPartial(d, k) ==
  IF k = 0 THEN {}
  ELSE IF k = 1 THEN {dirname(dirname(d))}
  ELSE {dirname(dirname(d)), dirname(d)}

Alive == pcMain \in {"spawn", "await"}
AtLoopHead(w) == Alive /\ pc[w] = "loop" /\ running = w
InVideo(w, stage) == Alive /\ pc[w] = stage /\ running = w

\* (variant: sharp is required only after ffmpeg was probed and the queue
\* was built)
RequireSharpFails_late ==
  /\ pcMain = "start"
  /\ pcMain' = "nosharp"
  /\ hasFfmpeg' = TRUE
  /\ queue' = media
  /\ UNCHANGED <<run, media, concurrency, spawned, counters, running, pc,
                 item, thumbPath, result>>
  /\ UNCHANGED <<videoVars, diskVars, histVars>>
  /\ UNCHANGED <<progress, scanVars, viewerVars, call>>

\* require('sharp') throws: generateThumbnails returns at once.
RequireSharpFails ==
  /\ pcMain = "start"
  /\ pcMain' = "nosharp"
  /\ UNCHANGED <<run, media, concurrency, hasFfmpeg, spawned, queue,
                 counters, running, pc, item, thumbPath, result>>
  /\ UNCHANGED <<videoVars, diskVars, histVars>>
  /\ UNCHANGED <<progress, scanVars, viewerVars, call>>

\* sharp loaded, ffmpeg probed once, counters zeroed, queue = [...media]
PoolStart(ff) ==
  /\ pcMain = "start"
  /\ hasFfmpeg' = ff
  /\ queue' = media
  /\ counters' = [completed |-> 0, skipped |-> 0, failed |-> 0]
  /\ pcMain' = "spawn"
  /\ UNCHANGED <<run, media, concurrency, spawned, running, pc, item,
                 thumbPath, result>>
  /\ UNCHANGED <<videoVars, diskVars, histVars>>
  /\ UNCHANGED <<progress, scanVars, viewerVars, call>>

\* workers.push(processOne()): the next worker starts and runs at once.
Spawn ==
  /\ pcMain = "spawn"
  /\ running = 0
  /\ spawned < concurrency
  /\ spawned' = spawned + 1
  /\ pc' = [pc EXCEPT ![spawned + 1] = "loop"]
  /\ running' = spawned + 1
  /\ UNCHANGED <<run, media, concurrency, pcMain, hasFfmpeg, queue, counters,
                 item, thumbPath, result>>
  /\ UNCHANGED <<videoVars, diskVars, histVars>>
  /\ UNCHANGED <<progress, scanVars, viewerVars, call>>

\* await Promise.all(workers): only now can suspended workers resume.
AwaitAll ==
  /\ pcMain = "spawn"
  /\ running = 0
  /\ spawned = concurrency
  /\ pcMain' = "await"
  /\ UNCHANGED <<run, media, concurrency, hasFfmpeg, spawned, queue, counters,
                 running, pc, item, thumbPath, result>>
  /\ UNCHANGED <<videoVars, diskVars, histVars>>
  /\ UNCHANGED <<progress, scanVars, viewerVars, call>>

\* while (queue.length > 0) is false: processOne returns.
WorkerReturn(w) ==
  /\ AtLoopHead(w)
  /\ queue = <<>>
  /\ pc' = [pc EXCEPT ![w] = "done"]
  /\ running' = 0
  /\ UNCHANGED <<mainVars, queue, counters, item, thumbPath, result>>
  /\ UNCHANGED <<videoVars, diskVars, histVars>>
  /\ UNCHANGED <<progress, scanVars, viewerVars, call>>

\* One iteration that ends in a continue: the entry is skipped.
SkipEntry(w, why) ==
  /\ AtLoopHead(w)
  /\ queue # <<>>
  /\ LET it == Head(queue)
         tp == thumbPathFor(it)
     IN  /\ Decide(it, tp, files, hasFfmpeg) = why
         /\ queue' = Shift(queue)
         /\ counters' = CountSkipped(counters)
         /\ claimed' = [claimed EXCEPT ![it.path] = Append(@, w)]
         /\ outcome' = [outcome EXCEPT ![it.path] = why]
  /\ UNCHANGED <<mainVars, running, pc, item, thumbPath, result>>
  /\ UNCHANGED <<videoVars, diskVars, prevOutcome, prevFiles, summary>>
  /\ UNCHANGED <<progress, scanVars, viewerVars, call>>

SkipCacheHit(w) == SkipEntry(w, "SkippedHit")

SkipNoFfmpeg(w) == SkipEntry(w, "SkippedDep")

\* fs.mkdirSync throws outside the try block: processOne rejects.
MkdirFails(w) ==
  /\ AtLoopHead(w)
  /\ queue # <<>>
  /\ LET it == Head(queue)
         tp == thumbPathFor(it)
     IN  /\ Decide(it, tp, files, hasFfmpeg) = "Dispatch"
         /\ dirname(tp) \notin dirs
         /\ \E k \in 0..2 : dirs' = dirs \cup MkdirPartial(dirname(tp), k)
         /\ queue' = Shift(queue)
         /\ claimed' = [claimed EXCEPT ![it.path] = Append(@, w)]
         /\ outcome' = [outcome EXCEPT ![it.path] = "Threw"]
  /\ pc' = [pc EXCEPT ![w] = "rejected"]
  /\ running' = 0
  /\ UNCHANGED <<mainVars, counters, item, thumbPath, result>>
  /\ UNCHANGED <<videoVars, files, tempDirs, prevOutcome, prevFiles, summary>>
  /\ UNCHANGED <<progress, scanVars, viewerVars, call>>

\* The entry goes to a generator: sharp(...).toFile for a still (the worker
\* suspends at the await), generateVideoThumbnail for a video (the call runs
\* on the JavaScript thread).
Dispatch(w, next) ==
  /\ AtLoopHead(w)
  /\ queue # <<>>
  /\ LET it == Head(queue)
         tp == thumbPathFor(it)
     IN  /\ Decide(it, tp, files, hasFfmpeg) = "Dispatch"
         /\ next = IF it.type = "video" THEN "probe" ELSE "waiting"
         /\ dirs' = dirs \cup MkdirP(dirname(tp))
         /\ queue' = Shift(queue)
         /\ item' = [item EXCEPT ![w] = it]
         /\ thumbPath' = [thumbPath EXCEPT ![w] = tp]
         /\ claimed' = [claimed EXCEPT ![it.path] = Append(@, w)]
         /\ outcome' = [outcome EXCEPT ![it.path] = "Dispatched"]
  /\ pc' = [pc EXCEPT ![w] = next]
  /\ running' = IF next = "probe" THEN w ELSE 0
  /\ UNCHANGED <<mainVars, counters, result>>
  /\ UNCHANGED <<videoVars, files, tempDirs, prevOutcome, prevFiles, summary>>
  /\ UNCHANGED <<progress, scanVars, viewerVars, call>>

DispatchStill(w) == Dispatch(w, "waiting")

DispatchVideo(w) == Dispatch(w, "probe")

\* ------------------------------------------------------- the video sampler
\* Durations are kept in milliseconds; ffprobe prints seconds.
MsPerSecond == 1000

\* The durations ffprobe reports to the workers of the pool.
Durations == {k * MsPerSecond : k \in 1..MaxDuration}

\* Math.floor(duration), in seconds
Floor(d) == d \div MsPerSecond

baseSegmentCount(h) == (parseHexPair(SubSeq(h, 1, 2)) % 4) + 7

FramesPerSegment(h) == (parseHexPair(SubSeq(h, 3, 4)) % 11) + 10

\* (variant: the clamp to the duration is missing)
SegmentCount_unclamped(h, d) == baseSegmentCount(h)

\* Math.min(baseSegmentCount, Math.max(1, Math.floor(duration)))
SegmentCount(h, d) == Min(baseSegmentCount(h), Max(1, Floor(d)))

\* Points in time are exact: a time is a whole number of units of
\* 1 / TimeDen(n) seconds, where n is the segment count of the invocation.
TimeDen(n) == 60 * MsPerSecond * Max(1, n - 1)

\* duration * 0.05
startOffset(d, n) == 3 * Max(1, n - 1) * d

\* duration * 0.95
endOffset(d, n) == 57 * Max(1, n - 1) * d

usableDuration(d, n) == endOffset(d, n) - startOffset(d, n)

\* (variant: the window is divided by segmentCount)
interval_perSegment(d, n) == usableDuration(d, n) \div Max(1, n)

\* usableDuration / Math.max(1, segmentCount - 1)
interval(d, n) == usableDuration(d, n) \div Max(1, n - 1)

\* segmentTimestamps[i] = startOffset + i * interval, i counted from 0
segmentTimestamp(d, n, i) == startOffset(d, n) + i * interval(d, n)

\* timestamp + (f / 30)
frameTime(timestamp, fr, n) == timestamp + fr * 2 * MsPerSecond * Max(1, n - 1)

\* (variant: the outer loop stops one segment early)
LoopDone_oneShort(s, n) == s >= n - 1

\* seg < segmentTimestamps.length is false: the extraction loops are over
LoopDone(s, n) == s >= n

\* The loop counters after one pass of the inner loop body: f++, and when
\* f < framesPerSegment fails, seg++ and f = 0.
LoopStep(s, fr, m) == IF fr + 1 < m THEN <<s, fr + 1>> ELSE <<s + 1, 0>>

\* fs.mkdtempSync: a directory name that is not in use and was not handed
\* out to an invocation of this pool before (the suffix is random)
FreshTemp ==
  LET used == DOMAIN tempDirs \cup {tempDir[w] : w \in Workers}
  IN  CHOOSE n \in 1..(Cardinality(used) + 1) : n \notin used

\* (variant: the frames are unlinked, rmdirSync is forgotten)
RemoveDir_keepsDirectory(t, id) == [t EXCEPT ![id] = {}]

RemoveDir(t, id) == [d \in DOMAIN t \ {id} |-> t[d]]

\* The k lowest-numbered frame files of a directory
RECURSIVE Lowest(_, _)
Lowest(S, k) ==
  IF k = 0 \/ S = {} THEN {}
  ELSE LET m == CHOOSE x \in S : \A y \in S : x <= y
       IN  {m} \cup Lowest(S \ {m}, k - 1)

TotalFrames(w) == segmentCount[w] * framesPerSegment[w]

\* number.toString() of a whole number below 10000
Decimal(n) ==
  LET digits == <<48 + (n \div 1000), 48 + ((n \div 100) % 10),
                  48 + ((n \div 10) % 10), 48 + (n % 10)>>
  IN  IF n >= 1000 THEN digits
      ELSE IF n >= 100 THEN SubSeq(digits, 2, 4)
      ELSE IF n >= 10 THEN SubSeq(digits, 3, 4)
      ELSE SubSeq(digits, 4, 4)

\* (variant: the name is padded to two digits)
padStart3_twoDigits(s) == IF Len(s) >= 2 THEN s ELSE <<48>> \o s

\* .padStart(3, '0')
padStart3(s) ==
  IF Len(s) >= 3 THEN s
  ELSE IF Len(s) = 2 THEN <<48>> \o s
  ELSE <<48, 48>> \o s

\* `frame_${frameIndex.toString().padStart(3, '0')}.png`
FrameName(index) ==
  <<102, 114, 97, 109, 101, 95>> \o padStart3(Decimal(index))
    \o <<46, 112, 110, 103>>

\* The file name ffmpeg makes of frame_%03d.png for a number: the number in
\* decimal, zero-filled to a width of at least three.
PatternName(k) ==
  <<102, 114, 97, 109, 101, 95>>
    \o (IF k < 10 THEN <<48, 48>> ELSE IF k < 100 THEN <<48>> ELSE <<>>)
    \o Decimal(k) \o <<46, 112, 110, 103>>

\* What ffmpeg reads through the pattern from a directory holding the given
\* file names: the files numbered 0, 1, 2, ... up to the first missing one.
ReadByPattern(names) ==
  LET matched == {k \in 0..Cardinality(names) : PatternName(k) \in names}
      count == CHOOSE k \in 0..(Cardinality(names) + 1) :
                 k \notin matched /\ \A j \in 0..(k - 1) : j \in matched
  IN  [k \in 1..count |-> PatternName(k - 1)]

\* The command line of one frame extraction.
FrameCall(w, ok) ==
  [kind |-> "frame", index |-> frameIndex[w], seg |-> seg[w], f |-> f[w],
   framePath |-> FrameName(frameIndex[w]),
   ss |-> frameTime(segmentTimestamp(duration[w], segmentCount[w], seg[w]),
                    f[w], segmentCount[w]),
   ok |-> ok]

\* The command line of the assembly: it reads the frame files in the scratch
\* directory.
AssembleCall(w, ok) ==
  [kind |-> "assemble", frames |-> tempDirs[tempDir[w]],
   read |-> ReadByPattern({FrameName(i) : i \in tempDirs[tempDir[w]]}),
   ok |-> ok]

\* getVideoDuration returns null: the call throws before any scratch exists.
ProbeFails(w) ==
  /\ InVideo(w, "probe")
  /\ pc' = [pc EXCEPT ![w] = "settled"]
  /\ result' = [result EXCEPT ![w] = "err"]
  /\ running' = 0
  /\ UNCHANGED <<mainVars, queue, counters, item, thumbPath>>
  /\ UNCHANGED <<videoVars, diskVars, histVars>>
  /\ UNCHANGED <<progress, scanVars, viewerVars, call>>

\* fs.mkdtempSync throws (it is called before the try block).
MkdtempFails(w, d) ==
  /\ InVideo(w, "probe")
  /\ duration' = [duration EXCEPT ![w] = d]
  /\ hash' = [hash EXCEPT ![w] = videoHashFor(item[w])]
  /\ segmentCount' =
       [segmentCount EXCEPT ![w] = SegmentCount(videoHashFor(item[w]), d)]
  /\ framesPerSegment' =
       [framesPerSegment EXCEPT ![w] = FramesPerSegment(videoHashFor(item[w]))]
  /\ pc' = [pc EXCEPT ![w] = "settled"]
  /\ result' = [result EXCEPT ![w] = "err"]
  /\ running' = 0
  /\ UNCHANGED <<mainVars, queue, counters, item, thumbPath>>
  /\ UNCHANGED <<tempDir, frameIndex, seg, f, ffmpegCalls, thrown,
                 cleanupThrew, diskVars, histVars>>
  /\ UNCHANGED <<progress, scanVars, viewerVars, call>>

\* Duration probed, sampling shape derived, scratch directory created.
ProbeOk(w, d) ==
  /\ InVideo(w, "probe")
  /\ duration' = [duration EXCEPT ![w] = d]
  /\ hash' = [hash EXCEPT ![w] = videoHashFor(item[w])]
  /\ segmentCount' =
       [segmentCount EXCEPT ![w] = SegmentCount(videoHashFor(item[w]), d)]
  /\ framesPerSegment' =
       [framesPerSegment EXCEPT ![w] = FramesPerSegment(videoHashFor(item[w]))]
  /\ tempDir' = [tempDir EXCEPT ![w] = FreshTemp]
  /\ tempDirs' = tempDirs @@ (FreshTemp :> {})
  /\ frameIndex' = [frameIndex EXCEPT ![w] = 0]
  /\ seg' = [seg EXCEPT ![w] = 0]
  /\ f' = [f EXCEPT ![w] = 0]
  /\ ffmpegCalls' = [ffmpegCalls EXCEPT ![w] = <<>>]
  /\ thrown' = [thrown EXCEPT ![w] = FALSE]
  /\ cleanupThrew' = [cleanupThrew EXCEPT ![w] = FALSE]
  /\ pc' = [pc EXCEPT ![w] = "extract"]
  /\ UNCHANGED <<mainVars, queue, counters, running, item, thumbPath, result>>
  /\ UNCHANGED <<files, dirs, histVars>>
  /\ UNCHANGED <<progress, scanVars, viewerVars, call>>

\* One execSync of ffmpeg writes frame number frameIndex; frameIndex++ and
\* the loop counters advance.
ExtractFrame(w) ==
  /\ InVideo(w, "extract")
  /\ ~LoopDone(seg[w], segmentCount[w])
  /\ tempDirs' = [tempDirs EXCEPT ![tempDir[w]] = @ \cup {frameIndex[w]}]
  /\ ffmpegCalls' = [ffmpegCalls EXCEPT ![w] = Append(@, FrameCall(w, TRUE))]
  /\ frameIndex' = [frameIndex EXCEPT ![w] = @ + 1]
  /\ seg' = [seg EXCEPT ![w] = LoopStep(seg[w], f[w], framesPerSegment[w])[1]]
  /\ f' = [f EXCEPT ![w] = LoopStep(seg[w], f[w], framesPerSegment[w])[2]]
  /\ UNCHANGED <<mainVars, queue, counters, running, pc, item, thumbPath,
                 result>>
  /\ UNCHANGED <<tempDir, segmentCount, framesPerSegment, thrown, cleanupThrew,
                 hash, duration, files, dirs, histVars>>
  /\ UNCHANGED <<progress, scanVars, viewerVars, call>>

\* The execSync throws (non-zero exit or timeout); ffmpeg may have left a
\* partial frame file.  Control passes to the finally block.
ExtractFails(w) ==
  /\ InVideo(w, "extract")
  /\ ~LoopDone(seg[w], segmentCount[w])
  /\ \E partial \in BOOLEAN :
       tempDirs' = [tempDirs EXCEPT ![tempDir[w]] =
                      IF partial THEN @ \cup {frameIndex[w]} ELSE @]
  /\ ffmpegCalls' = [ffmpegCalls EXCEPT ![w] = Append(@, FrameCall(w, FALSE))]
  /\ thrown' = [thrown EXCEPT ![w] = TRUE]
  /\ pc' = [pc EXCEPT ![w] = "cleanup"]
  /\ UNCHANGED <<mainVars, queue, counters, running, item, thumbPath, result>>
  /\ UNCHANGED <<tempDir, segmentCount, framesPerSegment, frameIndex,
                 cleanupThrew, hash, duration, seg, f, files, dirs, histVars>>
  /\ UNCHANGED <<progress, scanVars, viewerVars, call>>

\* The loops are over: ffmpeg assembles the frames into outputPath.
Assemble(w) ==
  /\ InVideo(w, "extract")
  /\ LoopDone(seg[w], segmentCount[w])
  /\ files' = files \cup {thumbPath[w]}
  /\ ffmpegCalls' = [ffmpegCalls EXCEPT ![w] = Append(@, AssembleCall(w, TRUE))]
  /\ pc' = [pc EXCEPT ![w] = "cleanup"]
  /\ UNCHANGED <<mainVars, queue, counters, running, item, thumbPath, result>>
  /\ UNCHANGED <<tempDir, segmentCount, framesPerSegment, frameIndex, thrown,
                 cleanupThrew, hash, duration, seg, f, dirs, tempDirs,
                 histVars>>
  /\ UNCHANGED <<progress, scanVars, viewerVars, call>>

\* The assembly execSync throws (non-zero exit, or killed at the 60 s
\* timeout); ffmpeg -y may already have created outputPath.
AssembleFails(w) ==
  /\ InVideo(w, "extract")
  /\ LoopDone(seg[w], segmentCount[w])
  /\ \E left \in BOOLEAN :
       files' = IF left THEN files \cup {thumbPath[w]} ELSE files
  /\ ffmpegCalls' = [ffmpegCalls EXCEPT ![w] = Append(@, AssembleCall(w, FALSE))]
  /\ thrown' = [thrown EXCEPT ![w] = TRUE]
  /\ pc' = [pc EXCEPT ![w] = "cleanup"]
  /\ UNCHANGED <<mainVars, queue, counters, running, item, thumbPath, result>>
  /\ UNCHANGED <<tempDir, segmentCount, framesPerSegment, frameIndex,
                 cleanupThrew, hash, duration, seg, f, dirs, tempDirs,
                 histVars>>
  /\ UNCHANGED <<progress, scanVars, viewerVars, call>>

\* finally: every frame unlinked, the directory removed; the async function
\* settles and the worker yields at its await.
Cleanup(w) ==
  /\ InVideo(w, "cleanup")
  /\ tempDirs' = RemoveDir(tempDirs, tempDir[w])
  /\ pc' = [pc EXCEPT ![w] = "settled"]
  /\ result' = [result EXCEPT ![w] = IF thrown[w] THEN "err" ELSE "ok"]
  /\ running' = 0
  /\ UNCHANGED <<mainVars, queue, counters, item, thumbPath>>
  /\ UNCHANGED <<videoVars, files, dirs, histVars>>
  /\ UNCHANGED <<progress, scanVars, viewerVars, call>>

\* finally: readdirSync or an unlinkSync throws after k frames were unlinked,
\* or rmdirSync throws after all of them were; the inner catch swallows the
\* error.
CleanupFails(w) ==
  /\ InVideo(w, "cleanup")
  /\ Cardinality(DOMAIN tempDirs) <= MaxLeaked
  /\ LET n == Cardinality(tempDirs[tempDir[w]])
     IN  \E k \in {j \in 0..n : j <= MaxUnlinked \/ j = n} :
           tempDirs' = [tempDirs EXCEPT ![tempDir[w]] = @ \ Lowest(@, k)]
  /\ cleanupThrew' = [cleanupThrew EXCEPT ![w] = TRUE]
  /\ pc' = [pc EXCEPT ![w] = "settled"]
  /\ result' = [result EXCEPT ![w] = IF thrown[w] THEN "err" ELSE "ok"]
  /\ running' = 0
  /\ UNCHANGED <<mainVars, queue, counters, item, thumbPath>>
  /\ UNCHANGED <<tempDir, segmentCount, framesPerSegment, frameIndex, thrown,
                 hash, duration, seg, f, ffmpegCalls, files, dirs, histVars>>
  /\ UNCHANGED <<progress, scanVars, viewerVars, call>>

\* ------------------------------------------------------ the still encoder
\* toFile resolves: the artifact is written.
SharpDone(w) ==
  /\ Alive
  /\ pc[w] = "waiting"
  /\ files' = files \cup {thumbPath[w]}
  /\ pc' = [pc EXCEPT ![w] = "settled"]
  /\ result' = [result EXCEPT ![w] = "ok"]
  /\ UNCHANGED <<mainVars, queue, counters, running, item, thumbPath>>
  /\ UNCHANGED <<videoVars, dirs, tempDirs, histVars>>
  /\ UNCHANGED <<progress, scanVars, viewerVars, call>>

\* toFile rejects; the output file may have been opened already.
SharpFails(w) ==
  /\ Alive
  /\ pc[w] = "waiting"
  /\ \E left \in BOOLEAN :
       files' = IF left THEN files \cup {thumbPath[w]} ELSE files
  /\ pc' = [pc EXCEPT ![w] = "settled"]
  /\ result' = [result EXCEPT ![w] = "err"]
  /\ UNCHANGED <<mainVars, queue, counters, running, item, thumbPath>>
  /\ UNCHANGED <<videoVars, dirs, tempDirs, histVars>>
  /\ UNCHANGED <<progress, scanVars, viewerVars, call>>

\* ------------------------------------------------------------ after await
\* The worker resumes after its await: completed++ or the catch block, then
\* back to the loop head.
Resume(w) ==
  /\ pcMain = "await"
  /\ running = 0
  /\ pc[w] = "settled"
  /\ counters' = IF result[w] = "ok" THEN CountGenerated(counters)
                 ELSE CountFailed(counters)
  /\ outcome' = [outcome EXCEPT ![item[w].path] =
                   IF result[w] = "ok" THEN "Generated" ELSE "Failed"]
  /\ pc' = [pc EXCEPT ![w] = "loop"]
  /\ running' = w
  /\ item' = [item EXCEPT ![w] = NoItem]
  /\ thumbPath' = [thumbPath EXCEPT ![w] = <<>>]
  /\ result' = [result EXCEPT ![w] = "none"]
  /\ tempDir' = [tempDir EXCEPT ![w] = 0]
  /\ segmentCount' = [segmentCount EXCEPT ![w] = 0]
  /\ framesPerSegment' = [framesPerSegment EXCEPT ![w] = 0]
  /\ frameIndex' = [frameIndex EXCEPT ![w] = 0]
  /\ thrown' = [thrown EXCEPT ![w] = FALSE]
  /\ cleanupThrew' = [cleanupThrew EXCEPT ![w] = FALSE]
  /\ hash' = [hash EXCEPT ![w] = <<>>]
  /\ duration' = [duration EXCEPT ![w] = 0]
  /\ seg' = [seg EXCEPT ![w] = 0]
  /\ f' = [f EXCEPT ![w] = 0]
  /\ ffmpegCalls' = [ffmpegCalls EXCEPT ![w] = <<>>]
  /\ progress' = Report(progress, counters', Len(media))
  /\ UNCHANGED <<mainVars, queue, diskVars, claimed, prevOutcome, prevFiles,
                 summary>>
  /\ UNCHANGED <<scanVars, viewerVars, call>>

\* Promise.all resolved: the summary line is printed.
Join ==
  /\ pcMain = "await"
  /\ \A w \in 1..concurrency : pc[w] = "done"
  /\ summary' = [generated |-> counters.completed - counters.skipped
                                 - counters.failed,
                 skipped |-> counters.skipped,
                 failed |-> counters.failed]
  /\ pcMain' = "done"
  /\ UNCHANGED <<run, media, concurrency, hasFfmpeg, spawned, queue, counters,
                 running, pc, item, thumbPath, result>>
  /\ UNCHANGED <<videoVars, diskVars, claimed, outcome, prevOutcome,
                 prevFiles>>
  /\ UNCHANGED <<progress, scanVars, viewerVars, call>>

\* Promise.all rejected: main().catch calls process.exit(1).  An encode in
\* flight is cut off and may have left its output file.
Abort ==
  /\ pcMain = "await"
  /\ running = 0
  /\ \E w \in Workers : pc[w] = "rejected"
  /\ \E S \in SUBSET {thumbPath[w] : w \in {v \in Workers : pc[v] = "waiting"}} :
       files' = files \cup S
  /\ pcMain' = "aborted"
  /\ UNCHANGED <<run, media, concurrency, hasFfmpeg, spawned, queue, counters,
                 running, pc, item, thumbPath, result>>
  /\ UNCHANGED <<videoVars, dirs, tempDirs, histVars>>
  /\ UNCHANGED <<progress, scanVars, viewerVars, call>>

\* The program is run again over the same root and inventory.
NextRun ==
  /\ pcMain \in {"done", "aborted", "nosharp"}
  /\ run < MaxRuns
  /\ run' = run + 1
  /\ prevOutcome' = outcome
  /\ prevFiles' = files
  /\ claimed' = [p \in PathsOf(media) |-> <<>>]
  /\ outcome' = [p \in PathsOf(media) |-> "Pending"]
  /\ pcMain' = "start"
  /\ hasFfmpeg' = FALSE
  /\ spawned' = 0
  /\ queue' = <<>>
  /\ counters' = [completed |-> 0, skipped |-> 0, failed |-> 0]
  /\ running' = 0
  /\ pc' = [w \in Workers |-> "unstarted"]
  /\ item' = [w \in Workers |-> NoItem]
  /\ thumbPath' = [w \in Workers |-> <<>>]
  /\ result' = [w \in Workers |-> "none"]
  /\ tempDir' = [w \in Workers |-> 0]
  /\ segmentCount' = [w \in Workers |-> 0]
  /\ framesPerSegment' = [w \in Workers |-> 0]
  /\ frameIndex' = [w \in Workers |-> 0]
  /\ thrown' = [w \in Workers |-> FALSE]
  /\ cleanupThrew' = [w \in Workers |-> FALSE]
  /\ hash' = [w \in Workers |-> <<>>]
  /\ duration' = [w \in Workers |-> 0]
  /\ seg' = [w \in Workers |-> 0]
  /\ f' = [w \in Workers |-> 0]
  /\ ffmpegCalls' = [w \in Workers |-> <<>>]
  /\ summary' = NoSummary
  /\ progress' = <<>>
  /\ UNCHANGED <<media, concurrency, diskVars>>
  /\ UNCHANGED <<scanVars, viewerVars, call>>

Next ==
  \/ RequireSharpFails
  \/ \E ff \in BOOLEAN : PoolStart(ff)
  \/ Spawn
  \/ AwaitAll
  \/ \E w \in Workers : WorkerReturn(w)
  \/ \E w \in Workers : SkipCacheHit(w)
  \/ \E w \in Workers : SkipNoFfmpeg(w)
  \/ \E w \in Workers : MkdirFails(w)
  \/ \E w \in Workers : DispatchStill(w)
  \/ \E w \in Workers : DispatchVideo(w)
  \/ \E w \in Workers : ProbeFails(w)
  \/ \E w \in Workers : \E d \in Durations : MkdtempFails(w, d)
  \/ \E w \in Workers : \E d \in Durations : ProbeOk(w, d)
  \/ \E w \in Workers : ExtractFrame(w)
  \/ \E w \in Workers : ExtractFails(w)
  \/ \E w \in Workers : Assemble(w)
  \/ \E w \in Workers : AssembleFails(w)
  \/ \E w \in Workers : Cleanup(w)
  \/ \E w \in Workers : CleanupFails(w)
  \/ \E w \in Workers : SharpDone(w)
  \/ \E w \in Workers : SharpFails(w)
  \/ \E w \in Workers : Resume(w)
  \/ Join
  \/ Abort
  \/ NextRun

Spec == Init /\ [][Next]_vars

\* The event loop runs every continuation that is ready, and every encoder,
\* ffprobe and ffmpeg invocation terminates: a step that can be taken is
\* eventually taken.
FairSpec == Spec /\ WF_vars(Next)

\* ------------------------------------------- one invocation of the sampler
poolVars == <<mainVars, queue, counters, running, pc, item, thumbPath, result,
             videoVars, diskVars, histVars, progress>>

\* The durations ffprobe reports when the sampler is followed on its own.
SamplerDurations == {k * TickMs : k \in 1..MaxTicks} \cup {10 * MsPerSecond}

\* The pool right after its first worker handed the only entry of the
\* inventory, a video, to generateVideoThumbnail.
SamplerInit ==
  /\ run = 1
  /\ media \in {<<MediaEntry(e)>> : e \in SamplerFiles}
  /\ concurrency = 1
  /\ pcMain = "spawn"
  /\ hasFfmpeg = TRUE
  /\ spawned = 1
  /\ queue = <<>>
  /\ counters = [completed |-> 0, skipped |-> 0, failed |-> 0]
  /\ running = 1
  /\ pc = [w \in Workers |-> IF w = 1 THEN "probe" ELSE "unstarted"]
  /\ item = [w \in Workers |-> IF w = 1 THEN media[1] ELSE NoItem]
  /\ thumbPath = [w \in Workers |->
                    IF w = 1 THEN thumbPathFor(media[1]) ELSE <<>>]
  /\ result = [w \in Workers |-> "none"]
  /\ tempDir = [w \in Workers |-> 0]
  /\ segmentCount = [w \in Workers |-> 0]
  /\ framesPerSegment = [w \in Workers |-> 0]
  /\ frameIndex = [w \in Workers |-> 0]
  /\ thrown = [w \in Workers |-> FALSE]
  /\ cleanupThrew = [w \in Workers |-> FALSE]
  /\ hash = [w \in Workers |-> <<>>]
  /\ duration = [w \in Workers |-> 0]
  /\ seg = [w \in Workers |-> 0]
  /\ f = [w \in Workers |-> 0]
  /\ ffmpegCalls = [w \in Workers |-> <<>>]
  /\ files = {}
  /\ dirs = MkdirP(dirname(thumbPathFor(media[1])))
  /\ tempDirs = <<>>
  /\ claimed = [p \in PathsOf(media) |-> <<1>>]
  /\ outcome = [p \in PathsOf(media) |-> "Dispatched"]
  /\ prevOutcome = [p \in PathsOf(media) |-> "None"]
  /\ prevFiles = {}
  /\ summary = NoSummary
  /\ progress = <<>>
  /\ ScanIdle
  /\ ViewerIdle
  /\ call = NoCall

SamplerNext ==
  \/ \E w \in Workers : ProbeFails(w)
  \/ \E w \in Workers : \E d \in SamplerDurations : MkdtempFails(w, d)
  \/ \E w \in Workers : \E d \in SamplerDurations : ProbeOk(w, d)
  \/ \E w \in Workers : ExtractFrame(w)
  \/ \E w \in Workers : ExtractFails(w)
  \/ \E w \in Workers : Assemble(w)
  \/ \E w \in Workers : AssembleFails(w)
  \/ \E w \in Workers : Cleanup(w)
  \/ \E w \in Workers : CleanupFails(w)

SamplerSpec == SamplerInit /\ [][SamplerNext]_vars

\* ------------------------------------------------------------- discovery
\* One directory entry: the directory it is in (absolute), its name, what
\* entry.isDirectory() / entry.isFile() say, its byte size.
Node(dir, name, kind, size) ==
  [dir |-> dir, name |-> name, kind |-> kind, size |-> size]

SubDir == join2(ROOT_DIR, <<115, 117, 98>>)

\* The byte sizes of the media files of the scanned tree.
Sizes == {100, 200}

\* The byte sizes of the thumbnails a run writes.
ThumbSizes == {50, 100}

\* The scanned tree before the program ever ran, in readdir order:
\*   a.jpg  sub/  sub/c.mp4  sub/thumbnails/  sub/thumbnails/t.png
\*   B.PNG  l.jpg (a symbolic link)  n.txt
SourceTree(s1, s2, s3) ==
  << Node(ROOT_DIR, <<97, 46, 106, 112, 103>>, "file", s1),
     Node(ROOT_DIR, <<115, 117, 98>>, "dir", 0),
     Node(SubDir, <<99, 46, 109, 112, 52>>, "file", s2),
     Node(SubDir, THUMBNAILS_DIR, "dir", 0),
     Node(join2(SubDir, THUMBNAILS_DIR), <<116, 46, 112, 110, 103>>, "file", 300),
     Node(ROOT_DIR, <<66, 46, 80, 78, 71>>, "file", s3),
     Node(ROOT_DIR, <<108, 46, 106, 112, 103>>, "other", 100),
     Node(ROOT_DIR, <<110, 46, 116, 120, 116>>, "file", 100) >>

\* Paths on which readdirSync or statSync may throw.
Deniable ==
  {ROOT_DIR, SubDir, join2(ROOT_DIR, <<97, 46, 106, 112, 103>>),
   join2(ROOT_DIR, <<66, 46, 80, 78, 71>>)}

RECURSIVE SelectNodes(_, _)
SelectNodes(t, dir) ==
  IF t = <<>> THEN <<>>
  ELSE IF Head(t).dir = dir THEN <<Head(t)>> \o SelectNodes(Tail(t), dir)
  ELSE SelectNodes(Tail(t), dir)

\* fs.readdirSync(dir, { withFileTypes: true })
readdir(t, dir) == SelectNodes(t, dir)

\* path.relative(ROOT_DIR, fullPath) for a path below the root
relative(from, to) == SubSeq(to, Len(from) + 2, Len(to))

\* (variant: the thumbnails directory is not skipped)
IsOutput_filesOnly(name) == name \in {OUTPUT_DATA_FILE, OUTPUT_HTML_FILE}

\* entry.name === OUTPUT_DATA_FILE || ... OUTPUT_HTML_FILE || ... THUMBNAILS_DIR
IsOutput(name) == name \in {OUTPUT_DATA_FILE, OUTPUT_HTML_FILE, THUMBNAILS_DIR}

IsMedia(name) == ToLower(extname(name)) \in MEDIA_EXTENSIONS

\* (variant: seenSizes.add is missing)
Remember_forgets(sizes, size) == sizes

\* seenSizes.add(stats.size)
Remember(sizes, size) == sizes \cup {size}

\* The entry pushed for a file: relative path, size, type by extension.
EntryFor(node) ==
  MediaEntry([path |-> relative(ROOT_DIR, join2(node.dir, node.name)),
              size |-> node.size])

NewFrame(dir) == [dir |-> dir, read |-> FALSE, entries |-> <<>>]

scanFrame == <<concurrency, hasFfmpeg, spawned, queue, counters, running, pc,
              item, thumbPath, result, videoVars, diskVars, histVars,
              progress, viewerVars, call>>

Scanning == pcMain = "scan" /\ stack # <<>>

AtEntry == Scanning /\ Head(stack).read /\ Head(stack).entries # <<>>

\* The entry the for loop is at, and the stack once the loop moved past it.
Entry == Head(Head(stack).entries)

Advanced == <<[Head(stack) EXCEPT !.entries = Tail(@)]>> \o Tail(stack)

\* readdirSync succeeds: the for loop starts.
ReadDir ==
  /\ Scanning
  /\ ~Head(stack).read
  /\ Head(stack).dir \notin denied
  /\ stack' = <<[Head(stack) EXCEPT !.read = TRUE,
                                    !.entries = readdir(tree, Head(stack).dir)]>>
               \o Tail(stack)
  /\ UNCHANGED <<run, media, pcMain, tree, denied, seenSizes,
                 duplicatesSkipped, visited, prevMedia, scanFrame>>

\* readdirSync throws: a warning, and this call returns media unchanged.
ReadDirFails ==
  /\ Scanning
  /\ ~Head(stack).read
  /\ Head(stack).dir \in denied
  /\ stack' = Tail(stack)
  /\ pcMain' = IF Tail(stack) = <<>> THEN "found" ELSE pcMain
  /\ UNCHANGED <<run, media, tree, denied, seenSizes, duplicatesSkipped,
                 visited, prevMedia, scanFrame>>

\* An entry named like an output of the program: continue.
SkipOutput ==
  /\ AtEntry
  /\ IsOutput(Entry.name)
  /\ stack' = Advanced
  /\ UNCHANGED <<run, media, pcMain, tree, denied, seenSizes,
                 duplicatesSkipped, visited, prevMedia, scanFrame>>

\* A directory: findMedia(fullPath, media).
Descend ==
  /\ AtEntry
  /\ ~IsOutput(Entry.name)
  /\ Entry.kind = "dir"
  /\ stack' = <<NewFrame(join2(Entry.dir, Entry.name))>> \o Advanced
  /\ UNCHANGED <<run, media, pcMain, tree, denied, seenSizes,
                 duplicatesSkipped, visited, prevMedia, scanFrame>>

\* Neither a directory nor a regular file, or a file that is no media.
IgnoreEntry ==
  /\ AtEntry
  /\ ~IsOutput(Entry.name)
  /\ \/ Entry.kind = "other"
     \/ Entry.kind = "file" /\ ~IsMedia(Entry.name)
  /\ stack' = Advanced
  /\ UNCHANGED <<run, media, pcMain, tree, denied, seenSizes,
                 duplicatesSkipped, visited, prevMedia, scanFrame>>

\* statSync throws on a media file: a warning.
StatFails ==
  /\ AtEntry
  /\ ~IsOutput(Entry.name)
  /\ Entry.kind = "file" /\ IsMedia(Entry.name)
  /\ join2(Entry.dir, Entry.name) \in denied
  /\ stack' = Advanced
  /\ UNCHANGED <<run, media, pcMain, tree, denied, seenSizes,
                 duplicatesSkipped, visited, prevMedia, scanFrame>>

\* A media file whose size was seen before: duplicatesSkipped++, continue.
SkipDuplicate ==
  /\ AtEntry
  /\ ~IsOutput(Entry.name)
  /\ Entry.kind = "file" /\ IsMedia(Entry.name)
  /\ join2(Entry.dir, Entry.name) \notin denied
  /\ Entry.size \in seenSizes
  /\ duplicatesSkipped' = duplicatesSkipped + 1
  /\ visited' = Append(visited, EntryFor(Entry))
  /\ stack' = Advanced
  /\ UNCHANGED <<run, media, pcMain, tree, denied, seenSizes, prevMedia,
                 scanFrame>>

\* A media file of a new size: remembered and pushed.
PushMedia ==
  /\ AtEntry
  /\ ~IsOutput(Entry.name)
  /\ Entry.kind = "file" /\ IsMedia(Entry.name)
  /\ join2(Entry.dir, Entry.name) \notin denied
  /\ Entry.size \notin seenSizes
  /\ seenSizes' = Remember(seenSizes, Entry.size)
  /\ media' = Append(media, EntryFor(Entry))
  /\ visited' = Append(visited, EntryFor(Entry))
  /\ stack' = Advanced
  /\ UNCHANGED <<run, pcMain, tree, denied, duplicatesSkipped, prevMedia,
                 scanFrame>>

\* The for loop is over: return media.
Return ==
  /\ Scanning
  /\ Head(stack).read
  /\ Head(stack).entries = <<>>
  /\ stack' = Tail(stack)
  /\ pcMain' = IF Tail(stack) = <<>> THEN "found" ELSE pcMain
  /\ UNCHANGED <<run, media, tree, denied, seenSizes, duplicatesSkipped,
                 visited, prevMedia, scanFrame>>

\* fs.writeFileSync(path.join(ROOT_DIR, name), ...): the file is created or
\* overwritten.
RECURSIVE WriteFile(_, _, _, _)
WriteFile(t, dir, name, size) ==
  IF t = <<>> THEN <<Node(dir, name, "file", size)>>
  ELSE IF Head(t).dir = dir /\ Head(t).name = name
  THEN <<Node(dir, name, "file", size)>> \o Tail(t)
  ELSE <<Head(t)>> \o WriteFile(Tail(t), dir, name, size)

\* mkdirSync: the directory is created unless it exists.
MakeDir(t, dir, name) ==
  IF \E i \in 1..Len(t) : t[i].dir = dir /\ t[i].name = name
  THEN t ELSE Append(t, Node(dir, name, "dir", 0))

\* media.sort(...) and generateDataFile(media)
GenerateDataFile ==
  /\ pcMain = "found"
  /\ media' = SortBySizeDesc(Range(media))
  /\ \E size \in ThumbSizes :
       tree' = WriteFile(tree, ROOT_DIR, OUTPUT_DATA_FILE, size)
  /\ pcMain' = "data"
  /\ UNCHANGED <<run, denied, seenSizes, duplicatesSkipped, stack, visited,
                 prevMedia, scanFrame>>

\* writeFileSync throws in generateDataFile: main rejects, process.exit(1).
GenerateDataFileFails ==
  /\ pcMain = "found"
  /\ media' = SortBySizeDesc(Range(media))
  /\ pcMain' = "aborted"
  /\ UNCHANGED <<run, tree, denied, seenSizes, duplicatesSkipped, stack,
                 visited, prevMedia, scanFrame>>

\* generateHtmlFile()
GenerateHtmlFile ==
  /\ pcMain = "data"
  /\ \E size \in ThumbSizes :
       tree' = WriteFile(tree, ROOT_DIR, OUTPUT_HTML_FILE, size)
  /\ pcMain' = "start"
  /\ UNCHANGED <<run, media, denied, seenSizes, duplicatesSkipped, stack,
                 visited, prevMedia, scanFrame>>

\* writeFileSync throws in generateHtmlFile: main rejects, process.exit(1).
GenerateHtmlFileFails ==
  /\ pcMain = "data"
  /\ pcMain' = "aborted"
  /\ UNCHANGED <<run, media, tree, denied, seenSizes, duplicatesSkipped,
                 stack, visited, prevMedia, scanFrame>>

\* The entries a scan of the tree can push, and the artifact path of each.
Pushable ==
  UNION {{EntryFor(node) : node \in {n \in Range(SourceTree(s1, s2, s3)) :
                                       n.kind = "file" /\ IsMedia(n.name)}} :
         s1 \in Sizes, s2 \in Sizes, s3 \in Sizes}

CacheFileOf == [e \in Pushable |-> getThumbnailPath(e.path, e.type)]

\* The artifact of one entry written below the cache root, with the
\* directories mkdirSync creates for it.
WriteArtifact(t, e, size) ==
  LET tp == CacheFileOf[e]
      top == join2(ROOT_DIR, THUMBNAILS_DIR)
      shard1 == join2(top, <<tp[12]>>)
      shard2 == join2(shard1, <<tp[14]>>)
  IN  WriteFile(MakeDir(MakeDir(MakeDir(t, ROOT_DIR, THUMBNAILS_DIR),
                                top, <<tp[12]>>),
                        shard1, <<tp[14]>>),
                shard2, basename(tp), size)

RECURSIVE WriteArtifacts(_, _, _, _)
WriteArtifacts(t, m, G, size) ==
  IF m = <<>> THEN t
  ELSE WriteArtifacts(IF Head(m) \in G THEN WriteArtifact(t, Head(m), size)
                      ELSE t,
                      Tail(m), G, size)

\* generateThumbnails(media) as a whole: the entries of G are generated, the
\* others are skipped or fail.
GenerateThumbnails ==
  /\ pcMain = "start"
  /\ \E G \in SUBSET Range(media), size \in ThumbSizes :
       tree' = WriteArtifacts(tree, media, G, size)
  /\ pcMain' = "done"
  /\ UNCHANGED <<run, media, denied, seenSizes, duplicatesSkipped, stack,
                 visited, prevMedia, scanFrame>>

\* The program is started again in the same directory: a new process, with
\* seenSizes empty and duplicatesSkipped zero, calls findMedia(ROOT_DIR).
ScanAgain ==
  /\ pcMain \in {"done", "aborted"}
  /\ run < MaxScans
  /\ run' = run + 1
  /\ prevMedia' = media
  /\ media' = <<>>
  /\ seenSizes' = {}
  /\ duplicatesSkipped' = 0
  /\ visited' = <<>>
  /\ stack' = <<NewFrame(ROOT_DIR)>>
  /\ pcMain' = "scan"
  /\ UNCHANGED <<tree, denied, scanFrame>>

\* main has just called findMedia(ROOT_DIR) on a tree the program never ran on.
ScanInit ==
  /\ run = 1
  /\ media = <<>>
  /\ concurrency = 1
  /\ pcMain = "scan"
  /\ PoolZero
  /\ files = {}
  /\ dirs = {}
  /\ tempDirs = <<>>
  /\ claimed = <<>>
  /\ outcome = <<>>
  /\ prevOutcome = <<>>
  /\ prevFiles = {}
  /\ ViewerIdle
  /\ call = NoCall
  /\ \E s1 \in Sizes, s2 \in Sizes, s3 \in Sizes : tree = SourceTree(s1, s2, s3)
  /\ denied \in {D \in SUBSET Deniable : Cardinality(D) <= MaxDenied}
  /\ seenSizes = {}
  /\ duplicatesSkipped = 0
  /\ stack = <<NewFrame(ROOT_DIR)>>
  /\ visited = <<>>
  /\ prevMedia = <<>>

ScanNext ==
  \/ ReadDir
  \/ ReadDirFails
  \/ SkipOutput
  \/ Descend
  \/ IgnoreEntry
  \/ StatFails
  \/ SkipDuplicate
  \/ PushMedia
  \/ Return
  \/ GenerateDataFile
  \/ GenerateDataFileFails
  \/ GenerateHtmlFile
  \/ GenerateHtmlFileFails
  \/ GenerateThumbnails
  \/ ScanAgain

ScanSpec == ScanInit /\ [][ScanNext]_vars

\* ------------------------------------------------ pure functions, called
\* The state of a program in which neither the scan nor the pool has begun.
Idle ==
  /\ run = 1
  /\ media = <<>>
  /\ concurrency = 1
  /\ PoolReset
  /\ files = {}
  /\ dirs = {}
  /\ tempDirs = <<>>
  /\ claimed = <<>>
  /\ outcome = <<>>
  /\ prevOutcome = <<>>
  /\ prevFiles = {}
  /\ ScanIdle

Bytes == {b \in 0..MaxByte : b < 256}

\* A fingerprint whose first two bytes are b1 and b2.
FingerprintWith(b1, b2) ==
  <<HexChar(b1 \div 16), HexChar(b1 % 16), HexChar(b2 \div 16),
    HexChar(b2 % 16)>> \o Hex4(0) \o Hex4(0) \o Hex4(0)

\* Lines 161-176 of generateVideoThumbnail applied to a fingerprint and a
\* duration.
CallSamplingShape(h, d) ==
  /\ LET n == SegmentCount(h, d)
         step == interval(d, n)
     IN  call' = [fn |-> "samplingShape", hash |-> h, duration |-> d,
                  baseSegmentCount |-> baseSegmentCount(h),
                  framesPerSegment |-> FramesPerSegment(h),
                  segmentCount |-> n,
                  segmentTimestamps |->
                    [i \in 1..n |-> startOffset(d, n) + (i - 1) * step]]
  /\ UNCHANGED <<poolVars, scanVars, viewerVars>>

SamplingInit == Idle /\ ViewerIdle /\ call = NoCall

\* getVideoDuration(videoPath) returns the duration ffprobe printed.
CallGetVideoDuration(d) ==
  /\ call' = [fn |-> "getVideoDuration", ret |-> d]
  /\ UNCHANGED <<poolVars, scanVars, viewerVars>>

\* The duration is probed, then the shape is computed for it, once, with any
\* fingerprint.
SamplingNext ==
  \/ /\ call = NoCall
     /\ \E d \in SamplerDurations : CallGetVideoDuration(d)
  \/ /\ call.fn = "getVideoDuration"
     /\ \E b1 \in Bytes, b2 \in Bytes :
          CallSamplingShape(FingerprintWith(b1, b2), call.ret)

SamplingSpec == SamplingInit /\ [][SamplingNext]_vars

\* The code units the strings given to hashPath are made of: NUL, '/', 'a',
\* U+00FF, a CJK character, U+FFFF.
CodeUnits == {0, 47, 97, 255, 20013, 65535}

Strings == UNION {[1..k -> CodeUnits] : k \in 0..MaxLen}

CallHashPath(str) ==
  /\ call' = [fn |-> "hashPath", str |-> str, ret |-> hashPath(str)]
  /\ UNCHANGED <<poolVars, scanVars, viewerVars>>

HashInit == Idle /\ ViewerIdle /\ call = NoCall

\* The function is called once, with any string.
HashNext ==
  /\ call = NoCall
  /\ \E str \in Strings : CallHashPath(str)

HashSpec == HashInit /\ [][HashNext]_vars

\* The generator processOne picks for an entry (lines 940-959).
EncoderOf(itemPath, itemType) ==
  LET ext == ToLower(extname(itemPath))
  IN  IF itemType = "video" THEN "ffmpeg"
      ELSE IF ext = EXT_GIF THEN "sharp.webp"
      ELSE IF ext = EXT_PNG THEN "sharp.png"
      ELSE "sharp.jpeg"

ToUpper(s) ==
  [i \in 1..Len(s) |-> IF s[i] \in 97..122 THEN s[i] - 32 ELSE s[i]]

\* File names findMedia accepts: a stem of 'a' and '.', then a media
\* extension in lower or upper case; in the root, in a directory d or in a
\* directory d.gif.
Stems == UNION {[1..k -> {97, 46}] : k \in 1..MaxStem}

MediaNames ==
  {stem \o ext : stem \in Stems,
                 ext \in MEDIA_EXTENSIONS \cup {ToUpper(x) : x \in MEDIA_EXTENSIONS}}

MediaPaths ==
  MediaNames \cup {join2(dir, name) : dir \in {<<100>>, <<100>> \o EXT_GIF},
                                      name \in MediaNames}

\* Whether the content of a file of that name can be an animation that is no
\* video: GIF, WebP and (A)PNG files can.
MayBeAnimated(p) == ToLower(extname(p)) \in {EXT_GIF, EXT_WEBP, EXT_PNG}

CallGetThumbnailPath(p, animated) ==
  /\ call' = [fn |-> "getThumbnailPath", path |-> p,
              type |-> MediaEntry([path |-> p, size |-> 0]).type,
              animated |-> animated,
              ret |-> getThumbnailPath(p, MediaEntry([path |-> p, size |-> 0]).type),
              viewer |-> viewerGetThumbnailPath(
                           p, MediaEntry([path |-> p, size |-> 0]).type),
              encoder |-> EncoderOf(p, MediaEntry([path |-> p, size |-> 0]).type)]
  /\ UNCHANGED <<poolVars, scanVars, viewerVars>>

LocatorInit == Idle /\ ViewerIdle /\ call = NoCall

\* The function is called once, for any entry findMedia can produce.
LocatorNext ==
  /\ call = NoCall
  /\ \E p \in MediaPaths, animated \in BOOLEAN :
       /\ animated => MayBeAnimated(p)
       /\ CallGetThumbnailPath(p, animated)

LocatorSpec == LocatorInit /\ [][LocatorNext]_vars

\* ------------------------------------------------------------- properties
EntryOf(p) == CHOOSE e \in Range(media) : e.path = p
ArtifactOf(p) == thumbPathFor(EntryOf(p))
WithOutcome(O) == {p \in PathsOf(media) : outcome[p] \in O}
Generating(w) == pc[w] \in {"waiting", "probe", "extract", "cleanup"}
InFlight == {w \in Workers : Generating(w) \/ pc[w] = "settled"}

\* C1: when the summary is printed after a full run, generated + skipped +
\* failed equals the inventory size, and each of the three counts is the
\* number of entries that ended with that outcome.
C1_Conservation ==
  pcMain = "done" =>
    /\ summary.generated + summary.skipped + summary.failed = Len(media)
    /\ summary.generated = Cardinality(WithOutcome({"Generated"}))
    /\ summary.skipped = Cardinality(WithOutcome({"SkippedHit", "SkippedDep"}))
    /\ summary.failed = Cardinality(WithOutcome({"Failed"}))

C1_Witness ==
  /\ pcMain = "done"
  /\ Len(media) = MaxItems
  /\ concurrency > 1
  /\ summary.generated >= 1
  /\ summary.failed >= 1

\* C2: every entry is dequeued by at most one worker and at most once, an
\* entry is either still queued or claimed, no two workers hold the same
\* entry, every completion gives one entry its terminal outcome, and when the
\* run has completed every entry was dequeued exactly once and has a terminal
\* outcome.
C2_ClaimedOnce ==
  /\ \A p \in PathsOf(media) :
       /\ Len(claimed[p]) <= 1
       /\ (claimed[p] = <<>>) <=> (outcome[p] = "Pending")
       /\ Alive => ((p \in PathsOf(queue)) <=> (outcome[p] = "Pending"))
  /\ \A v, w \in Workers :
       (v # w /\ item[v] # NoItem) => item[v] # item[w]
  /\ Alive => counters.completed = Cardinality(WithOutcome(Terminal))
  /\ pcMain = "done" =>
       \A p \in PathsOf(media) :
         Len(claimed[p]) = 1 /\ outcome[p] \in Terminal

C2_Witness ==
  /\ pcMain = "done"
  /\ concurrency > 1
  /\ \E p, q \in PathsOf(media) : claimed[p] = <<1>> /\ claimed[q] = <<2>>

\* C3 as claimed: after two full runs over the same inventory, with the cache
\* untouched in between, the second run has no Generated outcome.
C3_SecondRunGeneratesNothing ==
  ( /\ run > 1
    /\ pcMain = "done"
    /\ \A p \in PathsOf(media) : prevOutcome[p] \in Terminal )
  => \A p \in PathsOf(media) : outcome[p] # "Generated"

\* C3 as amended: every entry that was Generated or Skipped by a cache hit in
\* the previous run has its artifact on disk when that run ends, and every
\* entry whose artifact is on disk then is never dispatched in the next run:
\* it is still pending or Skipped by a cache hit.
C3_CacheIdempotence ==
  run > 1 =>
    \A p \in PathsOf(media) :
      /\ prevOutcome[p] \in {"Generated", "SkippedHit"}
           => ArtifactOf(p) \in prevFiles
      /\ ArtifactOf(p) \in prevFiles
           => outcome[p] \in {"Pending", "SkippedHit"}

C3_Witness ==
  /\ run > 1
  /\ pcMain = "done"
  /\ Len(media) = MaxItems
  /\ \A p \in PathsOf(media) :
       prevOutcome[p] = "Generated" /\ outcome[p] = "SkippedHit"

\* C4: a task that ended Failed has left no file at its artifact path.
C4_FailedLeavesNoArtifact ==
  \A w \in Workers :
    (pc[w] = "settled" /\ result[w] = "err") => thumbPath[w] \notin files

\* C5: no entry is dequeued twice within a run, and an entry that Failed in
\* the previous run is not Skipped by a cache hit in the next one.
C5_FailedIsRetried ==
  /\ \A p \in PathsOf(media) : Len(claimed[p]) <= 1
  /\ run > 1 =>
       \A p \in PathsOf(media) :
         prevOutcome[p] = "Failed" => outcome[p] # "SkippedHit"

C7_DispatchPolicy ==
  [][ /\ \A p \in PathsOf(media) :
           (outcome[p] = "Pending" /\ outcome'[p] # "Pending") =>
             LET e == EntryOf(p)
                 absent == ArtifactOf(p) \notin files
                 usable == e.type # "video" \/ hasFfmpeg
             IN  /\ outcome'[p] \in {"SkippedHit", "SkippedDep"}
                      <=> ~(absent /\ usable)
                 /\ outcome'[p] = "SkippedHit" <=> ~absent
                 /\ outcome'[p] \in {"SkippedHit", "SkippedDep"}
                      => /\ files' = files
                         /\ dirs' = dirs
                         /\ tempDirs' = tempDirs
                         /\ pc' = pc
      /\ (Alive /\ pcMain' # "start") => hasFfmpeg' = hasFfmpeg
    ]_vars

C7_Witness ==
  /\ Alive
  /\ ~hasFfmpeg
  /\ \E p \in PathsOf(media) :
       EntryOf(p).type = "video" /\ outcome[p] = "SkippedHit"
  /\ \E p \in PathsOf(media) :
       EntryOf(p).type = "video" /\ outcome[p] = "SkippedDep"

\* C8: no step of a dequeued task that fails ends the run: the task is
\* counted (it never stays uncounted after an error) and the run is never
\* aborted before its summary.
C8_NoTaskErrorFatal ==
  /\ pcMain # "aborted"
  /\ \A p \in PathsOf(media) : outcome[p] # "Threw"

\* C9: while a worker is in the middle of generating an artifact, the queue
\* is not empty and fewer tasks than the concurrency limit are in flight,
\* another worker is able to dequeue.
CanDequeue(v) ==
  \/ pc[v] = "unstarted" /\ pcMain = "spawn" /\ running = 0 /\ v = spawned + 1
  \/ pc[v] = "loop" /\ running = v

C9_SlowTaskDoesNotBlock ==
  \A w \in Workers :
    ( /\ Alive
      /\ Generating(w)
      /\ queue # <<>>
      /\ Cardinality(InFlight) < concurrency
      /\ \A v \in Workers : pc[v] # "rejected" )
    => \E v \in 1..concurrency : v # w /\ CanDequeue(v)

\* C9, still images only: while a worker waits for the still encoder and no
\* video is being generated, under the same conditions another worker is able
\* to dequeue (this part of C9 holds).
C9_StillTaskDoesNotBlock ==
  \A w \in Workers :
    ( /\ Alive
      /\ pc[w] = "waiting"
      /\ \A v \in Workers : pc[v] \notin {"probe", "extract", "cleanup"}
      /\ queue # <<>>
      /\ Cardinality(InFlight) < concurrency
      /\ \A v \in Workers : pc[v] # "rejected" )
    => \E v \in 1..concurrency : v # w /\ CanDequeue(v)

\* C10: from pool start on, distinct inventory entries have distinct
\* artifact paths, and no two workers hold the same artifact path.
C10_ArtifactPathsDistinct ==
  Alive =>
    /\ \A p, q \in PathsOf(media) : p # q => ArtifactOf(p) # ArtifactOf(q)
    /\ \A v, w \in Workers :
         (v # w /\ thumbPath[v] # <<>>) => thumbPath[v] # thumbPath[w]

\* The entries of a sequence of visited files that are the first of their
\* size.
RECURSIVE FirstOfSize(_)
FirstOfSize(v) ==
  IF v = <<>> THEN <<>>
  ELSE LET init == SubSeq(v, 1, Len(v) - 1)
           last == v[Len(v)]
       IN  IF \E i \in 1..Len(init) : init[i].size = last.size
           THEN FirstOfSize(init)
           ELSE Append(FirstOfSize(init), last)

\* C11: no two inventory entries have the same byte size; the inventory is
\* made of the first file of each size in visit order; duplicatesSkipped is
\* the number of readable media files visited minus the inventory length.
C11_FirstOfEachSizeKept ==
  /\ \A i, j \in 1..Len(media) : i # j => media[i].size # media[j].size
  /\ pcMain \in {"scan", "found"} => media = FirstOfSize(visited)
  /\ pcMain \in {"data", "start", "done", "aborted"}
       => Range(media) = Range(FirstOfSize(visited))
  /\ duplicatesSkipped = Len(visited) - Len(media)
  /\ seenSizes = {visited[i].size : i \in 1..Len(visited)}

C11_Witness ==
  /\ pcMain = "found"
  /\ Len(visited) = 3
  /\ visited[1].size = 100 /\ visited[2].size = 200 /\ visited[3].size = 100
  /\ media = <<visited[1], visited[2]>>
  /\ media[1].type = "image" /\ media[2].type = "video"
  /\ duplicatesSkipped = 1

\* The components of a relative path.
RECURSIVE Components(_)
Components(path) ==
  IF path = <<>> THEN {}
  ELSE {basename(path)} \cup Components(dirname(path))

\* The media files a scan that skipped nothing would find in the outputs of
\* the program.
CachedMedia ==
  {i \in 1..Len(tree) :
     /\ tree[i].kind = "file"
     /\ IsMedia(tree[i].name)
     /\ THUMBNAILS_DIR \in Components(relative(ROOT_DIR, tree[i].dir))}

\* C12: no inventory entry has a path component named thumbnails or is named
\* gallery.html or images-data.js, and a run over a root that holds the
\* outputs of an earlier run finds the inventory that run found.
C12_OutputsNeverInventoried ==
  /\ \A i \in 1..Len(media) :
       Components(media[i].path)
         \cap {THUMBNAILS_DIR, OUTPUT_DATA_FILE, OUTPUT_HTML_FILE} = {}
  /\ (run > 1 /\ pcMain # "scan") => Range(media) = Range(prevMedia)

C12_Witness ==
  /\ run > 1
  /\ pcMain = "found"
  /\ Len(media) >= 2
  /\ \E i \in CachedMedia : tree[i].dir # join2(SubDir, THUMBNAILS_DIR)
  /\ \E i \in 1..Len(tree) : tree[i].name = OUTPUT_HTML_FILE

\* C13: an unreadable subdirectory contributes nothing while its siblings are
\* scanned, and when the root directory is unreadable the run produces no
\* manifest, no viewer document and no thumbnail.
C13_UnreadableRootAborts ==
  /\ (SubDir \in denied /\ pcMain = "found" /\ run = 1) =>
       /\ \A i \in 1..Len(media) : dirname(media[i].path) = <<>>
       /\ media # <<>>
  /\ ROOT_DIR \in denied =>
       \A i \in 1..Len(tree) :
         /\ ~IsOutput(tree[i].name) \/ tree[i].dir # ROOT_DIR
         /\ tree[i].dir # join2(ROOT_DIR, THUMBNAILS_DIR)

C15_SeekTimesInWindow ==
  \A w \in Workers :
    \A i \in 1..Len(ffmpegCalls[w]) :
      ffmpegCalls[w][i].kind = "frame" =>
        /\ startOffset(duration[w], segmentCount[w]) <= ffmpegCalls[w][i].ss
        /\ ffmpegCalls[w][i].ss <= endOffset(duration[w], segmentCount[w])

\* C16: the string hashed inside generateVideoThumbnail gives the fingerprint
\* that names the entry's cache artifact.
FingerprintIn(tp) == SubSeq(basename(tp), 1, 16)

C16_SamplerSeedIsFingerprint ==
  \A w \in Workers :
    pc[w] \in {"extract", "cleanup"} => hash[w] = FingerprintIn(thumbPath[w])

\* C19: the ffmpeg commands of one invocation are the frame extractions
\* numbered 0, 1, 2, ... in the order segment by segment and, within a
\* segment, frame by frame, with segment timestamps increasing; a failed
\* extraction is the last command of the invocation; the assembly command
\* comes last, after exactly segmentCount * framesPerSegment successful
\* extractions, and reads exactly those frames.
C19_FramesInOrderThenAssembly ==
  \A w \in Workers :
    LET calls == ffmpegCalls[w]
        n == segmentCount[w]
        m == framesPerSegment[w]
    IN  \A i \in 1..Len(calls) :
          /\ calls[i].kind = "frame" =>
               /\ calls[i].index = i - 1
               /\ calls[i].seg = (i - 1) \div m
               /\ calls[i].f = (i - 1) % m
               /\ calls[i].seg < n
               /\ calls[i].ok \/ i = Len(calls)
               /\ i > 1 => calls[i - 1].kind = "frame"
               /\ (i > 1 /\ calls[i - 1].seg = calls[i].seg)
                    => calls[i - 1].ss < calls[i].ss
               /\ (i > m) => calls[i - m].ss < calls[i].ss
          /\ calls[i].kind = "assemble" =>
               /\ i = Len(calls)
               /\ i = n * m + 1
               /\ \A j \in 1..(i - 1) : calls[j].kind = "frame" /\ calls[j].ok
               /\ calls[i].frames = 0..(n * m - 1)

C19_Witness ==
  \E w \in Workers :
    /\ segmentCount[w] >= 7
    /\ ffmpegCalls[w] # <<>>
    /\ ffmpegCalls[w][Len(ffmpegCalls[w])].kind = "assemble"
    /\ pc[w] = "settled"

\* C20: whenever the completed count has reached a multiple of 10 or the
\* inventory size, a progress line was written for that count.
C20_ProgressAtCadence ==
  (Alive \/ pcMain = "done") =>
    \A c \in 1..counters.completed :
      (c % 10 = 0 \/ c = Len(media)) => c \in Range(progress)

\* C17: hashPath returns 16 characters, each a lowercase hex digit; the
\* first 8 are accumulator 1 and the last 8 accumulator 2, where an
\* accumulator starts at its seed (5381, 52711) and becomes
\* ((acc * 33) XOR code) mod 2^32 with every character.
HexDigits == (48..57) \cup (97..102)

Times33(h) ==
  [hi |-> (h.hi * 33 + (h.lo * 33) \div W16) % W16, lo |-> (h.lo * 33) % W16]

RECURSIVE Accumulate(_, _)
Accumulate(seed, str) ==
  IF str = <<>> THEN Word(seed)
  ELSE LET acc == Times33(Accumulate(seed, SubSeq(str, 1, Len(str) - 1)))
       IN  [hi |-> acc.hi, lo |-> Xor16(acc.lo, str[Len(str)], 16)]

RECURSIVE HexNumber(_)
HexNumber(s) ==
  IF s = <<>> THEN 0
  ELSE 16 * HexNumber(SubSeq(s, 1, Len(s) - 1)) + HexValue(s[Len(s)])

WordOfHex(s) == [hi |-> HexNumber(SubSeq(s, 1, 4)), lo |-> HexNumber(SubSeq(s, 5, 8))]

C17_HashPathSixteenHex ==
  call.fn = "hashPath" =>
    /\ Len(call.ret) = 16
    /\ \A i \in 1..Len(call.ret) : call.ret[i] \in HexDigits
    /\ WordOfHex(SubSeq(call.ret, 1, 8)) = Accumulate(5381, call.str)
    /\ WordOfHex(SubSeq(call.ret, 9, 16)) = Accumulate(52711, call.str)

\* A string whose accumulator 1 has wrapped and has its top bit set (a
\* negative 32-bit integer in JavaScript).
C17_Witness ==
  /\ call.fn = "hashPath"
  /\ Len(call.str) = MaxLen
  /\ call.ret[1] \in {56, 57} \cup (97..102)

\* C18 as claimed: the artifact path is thumbnails/<fp[0]>/<fp[1]>/<fp><ext>,
\* and the extension is .webp for every video and every animated image.
ArtifactExt(tp) == SubSeq(tp, 32, Len(tp))

C18_AnimatedSourcesGetWebp ==
  (call.fn = "getThumbnailPath" /\ (call.type = "video" \/ call.animated))
    => ArtifactExt(call.ret) = EXT_WEBP

\* C18 as amended: the artifact path is thumbnails/<fp[0]>/<fp[1]>/<fp><ext>
\* with fp the fingerprint of the entry's path; the extension is .webp exactly
\* for videos and for names ending in .gif (in any case), .png exactly for
\* other names ending in .png, .jpg otherwise; and it is the extension of the
\* format the generator chosen for the entry writes.
FormatExt(encoder, tp) ==
  IF encoder = "ffmpeg" THEN ArtifactExt(tp)
  ELSE IF encoder = "sharp.webp" THEN EXT_WEBP
  ELSE IF encoder = "sharp.png" THEN EXT_PNG
  ELSE EXT_JPG

C18_ArtifactPathAndExtension ==
  call.fn = "getThumbnailPath" =>
    LET fp == hashPath(call.path)
        ext == ToLower(extname(call.path))
    IN  /\ SubSeq(call.ret, 1, 15) =
             THUMBNAILS_DIR \o <<SEP, fp[1], SEP, fp[2], SEP>>
        /\ SubSeq(call.ret, 16, 31) = fp
        /\ ArtifactExt(call.ret) \in {EXT_WEBP, EXT_PNG, EXT_JPG}
        /\ ArtifactExt(call.ret) = EXT_WEBP
             <=> (call.type = "video" \/ ext = EXT_GIF)
        /\ ArtifactExt(call.ret) = EXT_PNG
             <=> (call.type = "image" /\ ext = EXT_PNG)
        /\ ArtifactExt(call.ret) = FormatExt(call.encoder, call.ret)

C18_Witness ==
  /\ call.fn = "getThumbnailPath"
  /\ extname(call.path) = ToUpper(EXT_PNG)
  /\ ArtifactExt(call.ret) = EXT_PNG
  /\ call.encoder = "sharp.png"

\* C21: the inventory handed to the pool is sorted by non-increasing byte
\* size, and an entry has been dequeued only if every strictly larger entry
\* has been dequeued.
C21_LargestFirst ==
  /\ \A i, j \in 1..Len(media) : i < j => media[i].size >= media[j].size
  /\ \A d, e \in Range(media) :
       (e.size > d.size /\ claimed[d.path] # <<>>) => claimed[e.path] # <<>>

C21_Witness ==
  /\ Len(media) = 2
  /\ media[1].size > media[2].size
  /\ outcome[media[1].path] = "Dispatched"
  /\ claimed[media[1].path] = <<1>>
  /\ claimed[media[2].path] = <<2>>

\* The queue is empty and every worker the pool started has returned.
AllReturned == queue = <<>> /\ \A w \in 1..concurrency : pc[w] = "done"

\* C22: every run whose pool has started eventually reaches a state where
\* the queue is empty and all workers have returned, and the summary is
\* printed only in such a state.
C22_PoolRunsToCompletion ==
  /\ (pcMain = "spawn") ~> AllReturned
  /\ [](summary # NoSummary => AllReturned)

\* C27: when require('sharp') throws, generateThumbnails returns normally
\* and the step changes nothing but the position of main: ffmpeg is not
\* probed, the queue is not built, no worker is started, no entry is
\* dequeued and no file or directory is created; the run then stays so.
C27_NoSharpDisablesPipeline ==
  /\ [](pcMain = "nosharp" =>
          /\ queue = <<>> /\ spawned = 0 /\ running = 0
          /\ hasFfmpeg = FALSE
          /\ \A w \in Workers : pc[w] = "unstarted"
          /\ \A p \in PathsOf(media) :
               claimed[p] = <<>> /\ outcome[p] = "Pending"
          /\ files = prevFiles
          /\ summary = NoSummary)
  /\ [][(pcMain = "nosharp" \/ pcMain' = "nosharp") =>
          /\ pcMain' \in {"nosharp", "start"}
          /\ UNCHANGED <<files, dirs, tempDirs>>]_vars

C27_Witness ==
  /\ pcMain = "nosharp"
  /\ run = 2
  /\ Len(media) = 2
  /\ \E p \in PathsOf(media) : prevOutcome[p] = "Generated"
  /\ files # {}

\* A point in time, in units of 1 / TimeDen(n) seconds, is the given
\* percentage of a duration in milliseconds.
IsPercentOf(t, n, percent, d) ==
  t * 100 = percent * d * (TimeDen(n) \div MsPerSecond)

\* C28: with two or more segments the first timestamp is at 5% of the
\* duration, the last at 95%, consecutive timestamps differ by one interval
\* of at least one second, and the last frame of a segment (at most 19
\* thirtieths of a second after its timestamp) comes before the next
\* timestamp; a single timestamp is at 5% of the duration.
C28_TimestampsEvenlySpaced ==
  call.fn = "samplingShape" =>
    LET n == call.segmentCount
        ts == call.segmentTimestamps
        second == TimeDen(n)
    IN  /\ Len(ts) = n
        /\ IsPercentOf(ts[1], n, 5, call.duration)
        /\ n >= 2 =>
             /\ IsPercentOf(ts[n], n, 95, call.duration)
             /\ ts[2] - ts[1] >= second
             /\ \A i \in 1..(n - 1) :
                  /\ ts[i + 1] - ts[i] = ts[2] - ts[1]
                  /\ ts[i] + (call.framesPerSegment - 1) * (second \div 30)
                       < ts[i + 1]
        /\ call.framesPerSegment <= 20

C28_Witness ==
  /\ call.fn = "samplingShape"
  /\ call.segmentCount = 10
  /\ call.framesPerSegment = 20
  /\ call.duration = 10 * MsPerSecond
  /\ call.segmentTimestamps[2] - call.segmentTimestamps[1] = TimeDen(10)

\* C29: in every invocation the frame files are numbered 0, 1, 2, ... in
\* extraction order without gaps, there are segmentCount * framesPerSegment
\* of them when the assembly runs and never more than 200, every file name
\* has exactly three digits, and the assembly reads, through its pattern,
\* exactly the extracted frames in extraction order.
C29_FrameNamesMatchPattern ==
  \A w \in Workers :
    LET calls == ffmpegCalls[w]
    IN  /\ TotalFrames(w) <= 200
        /\ \A i \in 1..Len(calls) :
             /\ calls[i].kind = "frame" =>
                  /\ calls[i].index = i - 1
                  /\ calls[i].index < TotalFrames(w)
                  /\ Len(calls[i].framePath) = 13
             /\ calls[i].kind = "assemble" =>
                  /\ i = TotalFrames(w) + 1
                  /\ calls[i].read = [k \in 1..(i - 1) |-> calls[k].framePath]

C29_Witness ==
  \E w \in Workers :
    /\ ffmpegCalls[w] # <<>>
    /\ ffmpegCalls[w][Len(ffmpegCalls[w])].kind = "assemble"
    /\ Len(ffmpegCalls[w][Len(ffmpegCalls[w])].read) = 200

\* C30: for every entry findMedia can produce, the artifact path the viewer
\* computes is the path the generator computes.
C30_ViewerAndGeneratorAgree ==
  call.fn = "getThumbnailPath" => call.viewer = call.ret

C30_Witness ==
  /\ call.fn = "getThumbnailPath"
  /\ dirname(call.path) = <<100>> \o EXT_GIF
  /\ extname(call.path) = ToUpper(EXT_PNG)
  /\ call.viewer = call.ret
  /\ SubSeq(call.viewer, Len(call.viewer) - 3, Len(call.viewer)) = EXT_PNG

\* ------------------------------------------------------------- the viewer
\* The script of gallery.html.  IMAGES is the constant images-data.js
\* defines; the script's variables and the two buttons' disabled attributes
\* are the state.  A handler is a function from the state before it to the
\* state after it, so that handlers calling handlers read as in the script.

\* An inventory of n entries as findMedia returns it: distinct sizes,
\* largest first; every fourth entry is a video.
GalleryMedia(n) ==
  [i \in 1..n |->
     MediaEntry([path |-> padStart3(Decimal(i)) \o
                          (IF i % 4 = 0 THEN <<46, 109, 112, 52>> ELSE EXT_JPG),
                 size |-> MaxImages + 1 - i])]

\* Inventory sizes the viewer is followed on: none, one entry, a full page, a
\* page and one entry, and MaxImages entries (three pages, the last of one).
ImageCounts == {0, 1, IMAGES_PER_PAGE, IMAGES_PER_PAGE + 1, MaxImages}

viewerState ==
  [currentPage |-> currentPage,
   currentLightboxIndex |-> currentLightboxIndex,
   lightboxActive |-> lightboxActive,
   cursorIndex |-> cursorIndex,
   lastCursorPos |-> lastCursorPos,
   prevDisabled |-> prevDisabled,
   nextDisabled |-> nextDisabled]

\* The handler leaves the script in state s.
Becomes(s) ==
  /\ currentPage' = s.currentPage
  /\ currentLightboxIndex' = s.currentLightboxIndex
  /\ lightboxActive' = s.lightboxActive
  /\ cursorIndex' = s.cursorIndex
  /\ lastCursorPos' = s.lastCursorPos
  /\ prevDisabled' = s.prevDisabled
  /\ nextDisabled' = s.nextDisabled
  /\ UNCHANGED <<IMAGES, img, unloadable, poolVars, scanVars, call>>

\* Math.ceil(IMAGES.length / IMAGES_PER_PAGE)
totalPages == (Len(IMAGES) + IMAGES_PER_PAGE - 1) \div IMAGES_PER_PAGE

\* (variant: the Next button is disabled one page too late)
renderGallery_lateNext(s) ==
  IF Len(IMAGES) = 0 THEN s
  ELSE [s EXCEPT !.prevDisabled = (s.currentPage = 0),
                 !.nextDisabled = (s.currentPage >= totalPages)]

\* renderGallery, as far as the state goes: with an empty inventory it returns
\* before the buttons are touched.
renderGallery(s) ==
  IF Len(IMAGES) = 0 THEN s
  ELSE [s EXCEPT !.prevDisabled = (s.currentPage = 0),
                 !.nextDisabled = (s.currentPage >= totalPages - 1)]

nextPage(s) ==
  IF s.currentPage < totalPages - 1
  THEN renderGallery([s EXCEPT !.currentPage = @ + 1])
  ELSE s

prevPage(s) ==
  IF s.currentPage > 0
  THEN renderGallery([s EXCEPT !.currentPage = @ - 1])
  ELSE s

openLightbox(s, index) ==
  [s EXCEPT !.currentLightboxIndex = index, !.lightboxActive = TRUE]

closeLightbox(s) == [s EXCEPT !.lightboxActive = FALSE]

\* (variant: the last entry does not stop the lightbox)
lightboxNext_unguarded(s) == [s EXCEPT !.currentLightboxIndex = @ + 1]

lightboxNext(s) ==
  IF s.currentLightboxIndex < Len(IMAGES) - 1
  THEN [s EXCEPT !.currentLightboxIndex = @ + 1]
  ELSE s

lightboxPrev(s) ==
  IF s.currentLightboxIndex > 0
  THEN [s EXCEPT !.currentLightboxIndex = @ - 1]
  ELSE s

\* Thumbnails of the page shown: IMAGES.slice(start, end).
ItemsOnPage(s) ==
  Max(0, Min(IMAGES_PER_PAGE, Len(IMAGES) - s.currentPage * IMAGES_PER_PAGE))

\* getGridColumns in a window that fits `fit` thumbnails in one row: the
\* index of the first thumbnail on another row, or the number of thumbnails.
getGridColumns(s, fit) ==
  IF ItemsOnPage(s) < 2 THEN 1 ELSE Min(fit, ItemsOnPage(s))

ArrowKeys == {"ArrowUp", "ArrowDown", "ArrowLeft", "ArrowRight"}
Keys == ArrowKeys \cup {"Escape", "Enter", " "}

moveCursor(s, key, fit) ==
  LET cols == getGridColumns(s, fit)
      delta == CASE key = "ArrowRight" -> 1
                 [] key = "ArrowLeft"  -> -1
                 [] key = "ArrowDown"  -> cols
                 [] key = "ArrowUp"    -> -cols
      next == s.cursorIndex + delta
      targetPage == next \div IMAGES_PER_PAGE
  IN  IF next >= 0 /\ next < Len(IMAGES)
      THEN IF targetPage # s.currentPage
           THEN renderGallery([s EXCEPT !.cursorIndex = next,
                                        !.currentPage = targetPage])
           ELSE [s EXCEPT !.cursorIndex = next]
      ELSE s

\* The keydown listener of the document.
keydown(s, key, shiftKey, fit) ==
  IF s.lightboxActive
  THEN CASE key = "Escape"     -> closeLightbox(s)
         [] key = "ArrowRight" -> lightboxNext(s)
         [] key = "ArrowLeft"  -> lightboxPrev(s)
         [] OTHER              -> s
  ELSE IF shiftKey /\ key \in {"ArrowLeft", "ArrowRight"}
  THEN LET oldPage == s.currentPage
           t == IF key = "ArrowRight" THEN nextPage(s) ELSE prevPage(s)
       IN  IF t.cursorIndex >= 0 /\ t.currentPage # oldPage
           THEN [t EXCEPT !.cursorIndex =
                    Min(t.currentPage * IMAGES_PER_PAGE
                          + (t.cursorIndex % IMAGES_PER_PAGE),
                        Len(IMAGES) - 1)]
           ELSE t
  ELSE IF key \in ArrowKeys
  THEN IF s.cursorIndex < 0
       THEN [s EXCEPT !.cursorIndex =
                Min(s.currentPage * IMAGES_PER_PAGE + s.lastCursorPos,
                    Len(IMAGES) - 1)]
       ELSE moveCursor(s, key, fit)
  ELSE IF key = "Escape" /\ s.cursorIndex >= 0
  THEN [s EXCEPT !.lastCursorPos = s.cursorIndex % IMAGES_PER_PAGE,
                 !.cursorIndex = -1]
  ELSE IF key = "Enter" /\ s.cursorIndex >= 0
  THEN openLightbox(s, s.cursorIndex)
  ELSE s

\* ---- user events.  The lightbox, while active, covers the whole window
\* (position fixed, 100% by 100%, z-index 1000), so the buttons and the
\* thumbnails below it are clicked only while it is closed; a disabled button
\* gets no click.
ClickPrev ==
  /\ ~lightboxActive /\ ~prevDisabled
  /\ Becomes(prevPage(viewerState))

ClickNext ==
  /\ ~lightboxActive /\ ~nextDisabled
  /\ Becomes(nextPage(viewerState))

\* A click on the i-th thumbnail of the page shown: onclick="openLightbox(i)".
ClickThumbnail(i) ==
  /\ ~lightboxActive
  /\ i < ItemsOnPage(viewerState)
  /\ Becomes(openLightbox(viewerState, currentPage * IMAGES_PER_PAGE + i))

ClickLightboxClose ==
  /\ lightboxActive
  /\ Becomes(closeLightbox(viewerState))

ClickLightboxNext ==
  /\ lightboxActive
  /\ Becomes(lightboxNext(viewerState))

ClickLightboxPrev ==
  /\ lightboxActive
  /\ Becomes(lightboxPrev(viewerState))

\* A click on the lightbox outside its content.
ClickOutside ==
  /\ lightboxActive
  /\ Becomes(closeLightbox(viewerState))

KeyDown(key, shiftKey, fit) ==
  /\ key \in Keys
  /\ Becomes(keydown(viewerState, key, shiftKey, fit))

\* The page right after it was loaded: the script's initial values, then the
\* initial renderGallery().
ViewerInit ==
  /\ Idle
  /\ call = NoCall
  /\ img = NoImg
  /\ unloadable = {}
  /\ IMAGES \in {GalleryMedia(n) : n \in ImageCounts}
  /\ \E s \in {renderGallery([currentPage |-> 0,
                              currentLightboxIndex |-> -1,
                              lightboxActive |-> FALSE,
                              cursorIndex |-> -1,
                              lastCursorPos |-> 0,
                              prevDisabled |-> FALSE,
                              nextDisabled |-> FALSE])} :
       /\ currentPage = s.currentPage
       /\ currentLightboxIndex = s.currentLightboxIndex
       /\ lightboxActive = s.lightboxActive
       /\ cursorIndex = s.cursorIndex
       /\ lastCursorPos = s.lastCursorPos
       /\ prevDisabled = s.prevDisabled
       /\ nextDisabled = s.nextDisabled

ViewerNext ==
  \/ ClickPrev
  \/ ClickNext
  \/ \E i \in 0..(IMAGES_PER_PAGE - 1) : ClickThumbnail(i)
  \/ ClickLightboxClose
  \/ ClickLightboxNext
  \/ ClickLightboxPrev
  \/ ClickOutside
  \/ \E key \in Keys, shiftKey \in BOOLEAN, fit \in 1..MaxCols :
       KeyDown(key, shiftKey, fit)

ViewerSpec == ViewerInit /\ [][ViewerNext]_vars

\* C23: with a non-empty inventory the page shown is one of the pages, Prev is
\* disabled exactly on the first page and Next exactly on the last.
C23_PaginationInBounds ==
  Len(IMAGES) > 0 =>
    /\ currentPage \in 0..(totalPages - 1)
    /\ prevDisabled = (currentPage = 0)
    /\ nextDisabled = (currentPage = totalPages - 1)

C23_Witness ==
  /\ Len(IMAGES) = MaxImages
  /\ currentPage = totalPages - 1
  /\ currentPage = 2
  /\ cursorIndex = MaxImages - 1
  /\ nextDisabled /\ ~prevDisabled

\* C24: a visible cursor lies on the page shown.
C24_VisibleCursorOnShownPage ==
  cursorIndex >= 0 => cursorIndex \div IMAGES_PER_PAGE = currentPage

\* C25: when a thumbnail click opens the lightbox, a visible cursor moves to
\* the clicked thumbnail and a hidden cursor stays hidden.
C25_ClickMovesVisibleCursor ==
  [][(~lightboxActive /\ lightboxActive'
        /\ \E i \in 0..(IMAGES_PER_PAGE - 1) : ClickThumbnail(i))
      => /\ cursorIndex >= 0 => cursorIndex' = currentLightboxIndex'
         /\ cursorIndex < 0 => cursorIndex' < 0]_vars

\* ------------------------------------------- the thumbnail's load fallback
\* encodeURI over ASCII: letters, digits and ; / ? : @ & = + $ , # - _ . ! ~
\* * ' ( ) are kept, any other character becomes %XX.
UriKept ==
  (48..57) \cup (65..90) \cup (97..122) \cup
  {59, 47, 63, 58, 64, 38, 61, 43, 36, 44, 35, 45, 95, 46, 33, 126, 42, 39,
   40, 41}

HexUpper(d) == IF d < 10 THEN 48 + d ELSE 55 + d

RECURSIVE encodeURI(_)
encodeURI(s) ==
  IF s = <<>> THEN <<>>
  ELSE (IF Head(s) \in UriKept THEN <<Head(s)>>
        ELSE <<37, HexUpper(Head(s) \div 16), HexUpper(Head(s) % 16)>>)
       \o encodeURI(Tail(s))

\* 'data:image/svg+xml,...': the inline error icon, abbreviated to its scheme.
ErrorIcon == <<100, 97, 116, 97, 58>>
\* The URL of the directory gallery.html is opened from: 'file:///g/'.
BaseURL == <<102, 105, 108, 101, 58, 47, 47, 47, 103, 47>>

\* What reading img.src returns: the src attribute resolved against the
\* document's URL.  A data: URL is absolute; the paths of the inventory and of
\* the cache are relative.
SrcProperty(attr) == IF attr = ErrorIcon THEN attr ELSE BaseURL \o attr

\* The img's onerror attribute.  Assigning src starts a load, also when the
\* value assigned is the value the attribute has.
onerror(el) ==
  IF el.type # "video" /\ SrcProperty(el.src) # el.original
  THEN [el EXCEPT !.src = el.original, !.fetch = "pending",
                  !.loads = Append(@, SrcProperty(el.original))]
  ELSE [el EXCEPT !.src = ErrorIcon, !.fetch = "pending", !.loading = FALSE,
                  !.loads = Append(@, ErrorIcon)]

\* The img's onload attribute.
onload(el) == [el EXCEPT !.fetch = "done", !.loading = FALSE]

\* The img element renderGallery writes for one entry.
ImgFor(m) ==
  [src |-> encodeURI(viewerGetThumbnailPath(m.path, m.type)),
   original |-> encodeURI(m.path),
   type |-> m.type,
   loading |-> TRUE,
   fetch |-> "pending",
   loads |-> <<SrcProperty(encodeURI(viewerGetThumbnailPath(m.path, m.type)))>>]

\* The load of the current source ends with the image decoded.
LoadSucceeds ==
  /\ img.fetch = "pending"
  /\ SrcProperty(img.src) \notin unloadable
  /\ img' = onload(img)
  /\ UNCHANGED <<IMAGES, currentPage, currentLightboxIndex, lightboxActive,
                 cursorIndex, lastCursorPos, prevDisabled, nextDisabled,
                 unloadable, poolVars, scanVars, call>>

\* The load of the current source fails: file missing, or not an image the
\* browser can decode.
LoadFails ==
  /\ img.fetch = "pending"
  /\ SrcProperty(img.src) \in unloadable
  /\ Len(img.loads) < MaxLoads
  /\ img' = onerror(img)
  /\ UNCHANGED <<IMAGES, currentPage, currentLightboxIndex, lightboxActive,
                 cursorIndex, lastCursorPos, prevDisabled, nextDisabled,
                 unloadable, poolVars, scanVars, call>>

\* Entries whose thumbnail is followed: the names findMedia accepts, and a
\* name with a space in it.
FallbackEntries ==
  {MediaEntry([path |-> p, size |-> 1]) :
     p \in MediaNames \cup {<<97, 32, 98>> \o EXT_JPG}}

\* A gallery of one entry right after the initial renderGallery(); the
\* thumbnail, the original, both or neither fail to load.
FallbackInit ==
  /\ Idle
  /\ call = NoCall
  /\ IMAGES \in {<<m>> : m \in FallbackEntries}
  /\ currentPage = 0
  /\ currentLightboxIndex = -1
  /\ lightboxActive = FALSE
  /\ cursorIndex = -1
  /\ lastCursorPos = 0
  /\ prevDisabled = TRUE
  /\ nextDisabled = TRUE
  /\ img = ImgFor(IMAGES[1])
  /\ unloadable \in SUBSET {SrcProperty(img.src), SrcProperty(img.original)}

FallbackNext ==
  \/ LoadSucceeds
  \/ LoadFails

FallbackSpec == FallbackInit /\ [][FallbackNext]_vars

LoadsOf(url) == Cardinality({i \in 1..Len(img.loads) : img.loads[i] = url})

\* C26: the original is loaded at most once, for an image only, and when its
\* load has failed the error icon is the source and nothing is loaded after it.
C26_FallbackChainTerminates ==
  /\ LoadsOf(SrcProperty(img.original)) <= (IF img.type = "video" THEN 0 ELSE 1)
  /\ \A i \in 1..(Len(img.loads) - 1) :
       /\ img.loads[i] = SrcProperty(img.original)
       /\ img.loads[i] \in unloadable
       => img.loads[i + 1] = ErrorIcon /\ i + 1 = Len(img.loads)

\* C31: the cursor is hidden (-1) or on an entry of the inventory, and while
\* the lightbox is active it shows an entry of the inventory; with an empty
\* inventory the cursor stays hidden and the lightbox never opens.
C31_IndicesValid ==
  /\ cursorIndex = -1 \/ cursorIndex \in 0..(Len(IMAGES) - 1)
  /\ lightboxActive => currentLightboxIndex \in 0..(Len(IMAGES) - 1)

C31_Witness ==
  /\ Len(IMAGES) = MaxImages
  /\ lightboxActive
  /\ currentLightboxIndex = Len(IMAGES) - 1
  /\ cursorIndex = 0
  /\ currentPage = 0

====
